---- MODULE Spec2Model ----
(***************************************************************************)
(* SenseAI extension: the background service worker (the Coordinator),     *)
(* its result cache, and the collection protocol with the content script.  *)
(*                                                                         *)
(* Every `await` of the service worker is a suspension point: the code     *)
(* between two awaits of one handler is one action.  A chrome.storage get  *)
(* is read when the call is issued and a set is applied when it is issued  *)
(* (the browser serves one extension's storage calls in issue order); the  *)
(* handler resumes in a later action.  Timestamps are integer milliseconds *)
(* (Date.now()); toISOString()/new Date(string) keep milliseconds, so a    *)
(* stored time compares as the integer it was made from.                   *)
(***************************************************************************)
EXTENDS Integers, Sequences, FiniteSets, TLC

\* ------------------------------------------------------------------ bounds
MaxReq == 2          \* ANALYZE_PAGE requests in one behaviour
MaxAdvance == 1      \* times the clock is seen to have moved
MaxJitter == 1       \* ms between the two clock reads of setCachedResult
MaxCalls == 4        \* cache calls of the sequential cache specification
MaxOps == 3          \* offline queue calls in one behaviour
MaxUpdates == 3      \* updateStatus calls in one behaviour
MaxMessages == 2     \* GET_STATUS and unhandled messages in one behaviour
MaxRuns == 2         \* analyses of one bundle in one behaviour
ScoreMargin == 10    \* scores graded beyond either end of the 0-100 scale

\* ------------------------------------------------------- program constants
cacheExpiration == 24         \* DEFAULT_SETTINGS.cacheExpiration, hours
HourMs == 3600000             \* 60 * 60 * 1000

ExpirationMs(hours) == hours * HourMs

\* ------------------------------------------------------------------ values
Reqs == 1..MaxReq
Tabs == {1, 2}
Urls == { [scheme |-> "https", host |-> "a.com"],
          [scheme |-> "http",  host |-> "b.com"] }

\* The page each tab shows while the requests run.
TabPage(tabId) == IF tabId = 1 THEN [scheme |-> "https", host |-> "a.com"]
                  ELSE [scheme |-> "http", host |-> "b.com"]

\* new URL(url).hostname
getDomainFromUrl(url) == url.host
Domains == { getDomainFromUrl(u) : u \in Urls }

\* url.startsWith('https://')
StartsWithHttps(url) == url.scheme = "https"

NoUrl == [scheme |-> "", host |-> ""]
NoSignals == [kind |-> "none"]
NoResult == [kind |-> "none"]
NoEntry == [kind |-> "none"]
NoResponse == [kind |-> "none"]
EmptyCache == [d \in Domains |-> NoEntry]
EmptyTabResults == [t \in Tabs |-> NoResult]

\* A fallback bundle that reports every page as served over TLS.
FallbackSignalsSecure(url) ==
  [kind |-> "signals", url |-> url, domain |-> url.host,
   cookies |-> 0, trackers |-> 0, techniques |-> 0,
   headersPresent |-> 0, headersMissing |-> 0, headersIssues |-> 0,
   sslValid |-> TRUE]

\* The bundle the timeout of collectSignalsFromTab resolves with.
FallbackSignals(url) ==
  [kind |-> "signals", url |-> url, domain |-> getDomainFromUrl(url),
   cookies |-> 0, trackers |-> 0, techniques |-> 0,
   headersPresent |-> 0, headersMissing |-> 0, headersIssues |-> 0,
   sslValid |-> StartsWithHttps(url)]

\* collectAllSignals of the content script on the page a tab shows.  The page
\* here sets two cookies and loads one tracker; analyzeHeaders finds no meta
\* header and records its one "limited" issue.
collectAllSignals(page) ==
  [kind |-> "signals", url |-> page, domain |-> page.host,
   cookies |-> 2, trackers |-> 1, techniques |-> 0,
   headersPresent |-> 0, headersMissing |-> 0, headersIssues |-> 1,
   sslValid |-> (page.scheme = "https")]

\* A SIGNALS_COLLECTED payload that is no complete PageSignals: it has url
\* and domain but lacks the signal objects (the handler passes msg.signals on
\* as it comes).
PartialSignals(page) ==
  [kind |-> "partial", url |-> page, domain |-> page.host]

\* A scoring that never throws.
ScoringNeverThrows(signals) == FALSE

\* simulateAnalysis throws: enhanceSignals reads signals.trackers.detected,
\* a TypeError when the bundle has no trackers object.
ScoringThrows(signals) == signals.kind # "signals"

\* An analysis that names one domain in its result whatever the bundle.
simulateAnalysisOneDomain(signals, id) ==
  [kind |-> "result", id |-> id, url |-> signals.url, domain |-> "a.com",
   signals |-> signals, explanation |-> "pending"]

\* simulateAnalysis: id is generateId() of this analysis (one per request),
\* domain and url are the bundle's, the explanation starts pending.
simulateAnalysis(signals, id) ==
  [kind |-> "result", id |-> id, url |-> signals.url, domain |-> signals.domain,
   signals |-> signals, explanation |-> "pending"]

\* ------------------------------------------------------------------- cache
\* An expiry test that also drops the entry in its last millisecond.
ExpiredInclusive(item, t) == item.expiresAt <= t

\* new Date(cachedItem.expiresAt) < new Date()
Expired(item, t) == item.expiresAt < t

\* A delete that is lost before the object is stored.
EvictNothing(cached, domain) == cached

\* delete cached[domain]
EvictFrom(cached, domain) == [cached EXCEPT ![domain] = NoEntry]

\* An entry whose expiry is the time of writing, the lifetime not added.
MakeEntryNoLifetime(res, t1, t2, hours) ==
  [kind |-> "entry", result |-> res, cachedAt |-> t1, expiresAt |-> t2]

\* { result, cachedAt: new Date(), expiresAt: Date.now() + hours * 60*60*1000 }
\* t1 and t2 are the two clock reads.
MakeEntry(res, t1, t2, hours) ==
  [kind |-> "entry", result |-> res, cachedAt |-> t1,
   expiresAt |-> t2 + ExpirationMs(hours)]

\* A store that keeps the entry a domain already has.
PutIfAbsent(cached, domain, entry) ==
  IF cached[domain].kind = "none" THEN [cached EXCEPT ![domain] = entry]
  ELSE cached

\* cached[domain] = entry
PutInto(cached, domain, entry) == [cached EXCEPT ![domain] = entry]

VARIABLES
  now,                      \* the clock at its latest reading, ms
  advances,                 \* readings that found the clock moved
  cachedResults,            \* chrome.storage.local 'cachedResults'
  currentTabResults,        \* chrome.storage.session 'currentTabResults'
  pendingAnalyses,          \* extensionStatus.pendingAnalyses
  pendingSignalCollections, \* tab -> request whose resolver it holds, 0 none
  timerQ,                   \* the 10 s timers, in the order they were set
  pc, req, snap, tsnap, sig, result, response, \* per ANALYZE_PAGE request
  msg,                      \* COLLECT_SIGNALS / SIGNALS_COLLECTED of a request
  xpc, xsnap, xres,         \* generateExplanationAsync of a request's result
  resolveCalls, sigFrom, sigReply,   \* history of the collection protocol
  calls,                    \* history of the sequential cache calls
  settings,                 \* chrome.storage.local 'settings'.cacheExpiration
  offlineQueue,             \* chrome.storage.local 'offlineQueue'
  offlineQueueSize,         \* extensionStatus.offlineQueueSize
  qop,                      \* the offline queue calls, each with its locals
  enqueued, dequeued,       \* history of the offline queue calls
  statusUpdates,            \* the STATUS_UPDATE broadcasts sent so far
  popupOpen,                \* a popup is listening to broadcasts
  inbox,                    \* history of the messages the listener handled
  bundle,                   \* the PageSignals given to simulateAnalysis
  runs,                     \* the results simulateAnalysis returned for it
  cachedRun,                \* the cache entry's result for the bundle's domain
  published,                \* responses and ANALYSIS_RESULT broadcasts sent
  graded,                   \* a score and the verdict computed for it
  collected                 \* the content script: its page and what it sent

vars == <<now, advances, cachedResults, currentTabResults, pendingAnalyses,
          pendingSignalCollections, timerQ, pc, req, snap, tsnap, sig, result,
          response, msg, xpc, xsnap, xres, resolveCalls, sigFrom,
          sigReply, calls, settings, offlineQueue, offlineQueueSize, qop,
          enqueued, dequeued, statusUpdates, popupOpen, inbox, bundle, runs,
          cachedRun, published, graded, collected>>

\* What the ANALYZE_PAGE handlers and the cache calls never touch.
auxVars == <<settings, offlineQueue, offlineQueueSize, qop, enqueued, dequeued,
             statusUpdates, popupOpen, inbox, bundle, runs, cachedRun,
             published, graded, collected>>

coordVars == <<currentTabResults, pendingAnalyses, pendingSignalCollections,
               timerQ, pc, req, snap, tsnap, sig, result, response, msg,
               xpc, xsnap, xres, resolveCalls, sigFrom, sigReply, auxVars>>

\* No offline queue call has started.
NoQueueOp ==
  [pc |-> "idle", kind |-> "none", id |-> 0, signals |-> NoSignals,
   queue |-> <<>>]

\* 'settings' as the extension leaves it: onInstalled stores DEFAULT_SETTINGS
\* and the popup stores darkMode only, so no cacheExpiration of its own.
Unset == [stored |-> FALSE, cacheExpiration |-> 0]

\* 'settings' holding a cacheExpiration of its own.
Stored(hours) == [stored |-> TRUE, cacheExpiration |-> hours]

\* The service worker's module state and the stores, all but 'settings'.
InitState ==
  /\ now = 0
  /\ advances = 0
  /\ cachedResults = EmptyCache
  /\ currentTabResults = EmptyTabResults
  /\ pendingAnalyses = 0
  /\ pendingSignalCollections = [t \in Tabs |-> 0]
  /\ timerQ = <<>>
  /\ pc = [r \in Reqs |-> "idle"]
  /\ req = [r \in Reqs |-> [tabId |-> 0, url |-> NoUrl]]
  /\ snap = [r \in Reqs |-> EmptyCache]
  /\ tsnap = [r \in Reqs |-> EmptyTabResults]
  /\ sig = [r \in Reqs |-> NoSignals]
  /\ result = [r \in Reqs |-> NoResult]
  /\ response = [r \in Reqs |-> NoResponse]
  /\ msg = [r \in Reqs |-> "none"]
  /\ xpc = [r \in Reqs |-> "none"]
  /\ xsnap = [r \in Reqs |-> EmptyCache]
  /\ xres = [r \in Reqs |-> NoResult]
  /\ resolveCalls = [r \in Reqs |-> 0]
  /\ sigFrom = [r \in Reqs |-> 0]
  /\ sigReply = [r \in Reqs |-> "none"]
  /\ calls = <<>>
  /\ offlineQueue = <<>>
  /\ offlineQueueSize = 0
  /\ qop = [o \in 1..MaxOps |-> NoQueueOp]
  /\ enqueued = <<>>
  /\ dequeued = {}
  /\ statusUpdates = <<>>
  /\ popupOpen = FALSE
  /\ inbox = <<>>
  /\ runs = <<>>
  /\ cachedRun = NoResult
  /\ published = <<>>

\* Nothing given yet to the scoring, the grading and the content script.
NoGrade == [score |-> 0, verdict |-> "none"]
NoCollection == [kind |-> "none"]
InitInputs ==
  /\ bundle = NoSignals
  /\ graded = NoGrade
  /\ collected = NoCollection

Init == InitState /\ settings = Unset /\ InitInputs

\* getSettings().cacheExpiration: { ...DEFAULT_SETTINGS, ...(stored || {}) },
\* and DEFAULT_SETTINGS when the read fails.
getSettings ==
  IF settings.stored THEN settings.cacheExpiration ELSE cacheExpiration

\* ------------------------------------------------------------------ clock
\* `now` is the clock at its latest reading; an action that reads the clock
\* first lets time pass.  The time that may have passed since the last
\* reading: none, a cache lifetime, or a millisecond more than that; the
\* clock is seen to move at most MaxAdvance times in a behaviour.
Steps(n) == IF n < MaxAdvance
            THEN {0, ExpirationMs(cacheExpiration),
                  ExpirationMs(cacheExpiration) + 1}
            ELSE {0}
Moved(d) == IF d = 0 THEN 0 ELSE 1
Elapsed == Steps(advances)

\* The time between the two clock reads of setCachedResult, after d passed.
Jitter(d) == IF advances + Moved(d) < MaxAdvance THEN 0..MaxJitter ELSE {0}

\* ------------------------------------------------- promise of a collection
\* A handler that forgets pendingSignalCollections.delete(tabId).
RemovedNever(waiters, tabId) == waiters

\* pendingSignalCollections.delete(tabId)
Removed(waiters, tabId) == [waiters EXCEPT ![tabId] = 0]

\* resolve(signals) of request q's collectSignalsFromTab promise.  While q
\* still awaits it, the ANALYZE_PAGE handler goes on into analyzeSignals, whose
\* first statement counts the analysis in; a settled promise ignores the call.
CallResolver(q, signals, from) ==
  /\ resolveCalls' = [resolveCalls EXCEPT ![q] = @ + 1]
  /\ IF pc[q] = "collecting"
     THEN /\ pc' = [pc EXCEPT ![q] = "delay"]
          /\ sig' = [sig EXCEPT ![q] = signals]
          /\ sigFrom' = [sigFrom EXCEPT ![q] = from]
          /\ pendingAnalyses' = pendingAnalyses + 1
     ELSE UNCHANGED <<pc, sig, sigFrom, pendingAnalyses>>
  /\ UNCHANGED response

\* reject(error) of request q's promise: handleAsync's catch answers
\* {error: message}; a settled promise ignores the call.
CallReject(q) ==
  /\ IF pc[q] = "collecting"
     THEN /\ pc' = [pc EXCEPT ![q] = "done"]
          /\ response' = [response EXCEPT ![q] = [kind |-> "error"]]
     ELSE UNCHANGED <<pc, response>>
  /\ UNCHANGED <<resolveCalls, sig, sigFrom, pendingAnalyses>>

\* ------------------------------------------------------------ ANALYZE_PAGE
\* collectSignalsFromTab, the promise executor: register the resolver under
\* the tab id, send COLLECT_SIGNALS, set the 10 s timer.
StartCollect(r) ==
  /\ pendingSignalCollections' =
       [pendingSignalCollections EXCEPT ![req[r].tabId] = r]
  /\ msg' = [msg EXCEPT ![r] = "sent1"]
  /\ timerQ' = Append(timerQ, r)
  /\ pc' = [pc EXCEPT ![r] = "collecting"]

\* The ANALYZE_PAGE message arrives: getCachedResult issues its storage read.
\* The first request is for tab 1 and the url of its page; the later ones
\* name any tab and any url (a popup may hold the url of a page the tab has
\* left).
AnalyzePage(r, t, u) ==
  /\ pc[r] = "idle"
  /\ r = 1 => (t = 1 /\ u = TabPage(1))
  /\ \A q \in Reqs : q < r => pc[q] # "idle"
  /\ req' = [req EXCEPT ![r] = [tabId |-> t, url |-> u]]
  /\ snap' = [snap EXCEPT ![r] = cachedResults]
  /\ pc' = [pc EXCEPT ![r] = "lookup"]
  /\ UNCHANGED <<now, advances, cachedResults, currentTabResults,
                 pendingAnalyses, pendingSignalCollections, timerQ, tsnap, sig,
                 result, response, msg, xpc, xsnap, xres, resolveCalls, sigFrom,
                 sigReply, calls, auxVars>>

\* getCachedResult resumes with what it read.
GetCachedResume(r) ==
  /\ pc[r] = "lookup"
  /\ LET domain == getDomainFromUrl(req[r].url)
         cachedItem == snap[r][domain]
     IN \/ \* no entry: null, and the handler starts the collection
           /\ cachedItem = NoEntry
           /\ StartCollect(r)
           /\ UNCHANGED <<cachedResults, response>>
           /\ UNCHANGED <<now, advances>>
        \/ \* an entry: the clock is read
           /\ cachedItem # NoEntry
           /\ \E d \in Elapsed :
                /\ now' = now + d
                /\ advances' = advances + Moved(d)
                /\ IF Expired(cachedItem, now + d)
                   THEN \* delete it from what was read and store that
                        /\ cachedResults' = EvictFrom(snap[r], domain)
                        /\ pc' = [pc EXCEPT ![r] = "evict"]
                        /\ UNCHANGED <<pendingSignalCollections, msg, timerQ,
                                       response>>
                   ELSE \* answer from the cache
                        /\ response' = [response EXCEPT ![r] =
                             [kind |-> "ok", result |-> cachedItem.result,
                              fromCache |-> TRUE]]
                        /\ pc' = [pc EXCEPT ![r] = "done"]
                        /\ UNCHANGED <<cachedResults, pendingSignalCollections,
                                       msg, timerQ>>
  /\ snap' = [snap EXCEPT ![r] = EmptyCache]
  /\ UNCHANGED <<currentTabResults, pendingAnalyses, req, tsnap, sig, result,
                 xpc, xsnap, xres, resolveCalls, sigFrom, sigReply,
                 calls, auxVars>>

\* The eviction's storage write is done: getCachedResult returns null and the
\* handler starts the collection.
EvictResume(r) ==
  /\ pc[r] = "evict"
  /\ StartCollect(r)
  /\ UNCHANGED <<now, advances, cachedResults, currentTabResults,
                 pendingAnalyses, req, snap, tsnap, sig, result, response, xpc,
                 xsnap, xres, resolveCalls, sigFrom, sigReply, calls, auxVars>>

\* ------------------------------------------------------- COLLECT_SIGNALS
\* No content script in the tab: the first sendMessage rejects; the script is
\* injected and COLLECT_SIGNALS is sent again.
InjectAndResend(r) ==
  /\ msg[r] = "sent1"
  /\ msg' = [msg EXCEPT ![r] = "sent2"]
  /\ UNCHANGED <<now, advances, cachedResults, currentTabResults,
                 pendingAnalyses, pendingSignalCollections, timerQ, pc, req,
                 snap, tsnap, sig, result, response, xpc, xsnap, xres,
                 resolveCalls, sigFrom, sigReply, calls, auxVars>>

\* The first sendMessage rejects and executeScript throws: the entry of the
\* tab is deleted and the promise rejected.
InjectFails(r) ==
  /\ msg[r] = "sent1"
  /\ msg' = [msg EXCEPT ![r] = "end"]
  /\ pendingSignalCollections' =
       Removed(pendingSignalCollections, req[r].tabId)
  /\ CallReject(r)
  /\ UNCHANGED <<now, advances, cachedResults, currentTabResults, timerQ, req,
                 snap, tsnap, result, xpc, xsnap, xres, sigReply,
                 calls, auxVars>>

\* The second sendMessage rejects: .catch(reject).
ResendFails(r) ==
  /\ msg[r] = "sent2"
  /\ msg' = [msg EXCEPT ![r] = "end"]
  /\ CallReject(r)
  /\ UNCHANGED <<now, advances, cachedResults, currentTabResults,
                 pendingSignalCollections, timerQ, req, snap, tsnap, result,
                 xpc, xsnap, xres, sigReply, calls, auxVars>>

\* ------------------------------------------------------ SIGNALS_COLLECTED
\* The content script of r's tab received COLLECT_SIGNALS, collected and sent
\* SIGNALS_COLLECTED, which now arrives.  (Collecting reads the page only, so
\* the send and the arrival are one action, placed at the arrival.)
SignalsCollected(r) ==
  /\ msg[r] \in {"sent1", "sent2"}
  /\ LET tabId == req[r].tabId
         signals == collectAllSignals(TabPage(tabId))
         q == pendingSignalCollections[tabId]
     IN IF q # 0
        THEN /\ CallResolver(q, signals, r)
             /\ pendingSignalCollections' =
                  Removed(pendingSignalCollections, tabId)
        ELSE UNCHANGED <<pendingSignalCollections, pc, sig, sigFrom,
                         pendingAnalyses, resolveCalls, response>>
  /\ sigReply' = [sigReply EXCEPT ![r] = "success"]
  /\ msg' = [msg EXCEPT ![r] = "end"]
  /\ UNCHANGED <<now, advances, cachedResults, currentTabResults, timerQ, req,
                 snap, tsnap, result, xpc, xsnap, xres, calls, auxVars>>

\* ------------------------------------------------------------- the timer
\* The oldest 10 s timer fires (equal delays fire in the order they were set).
CollectTimeout ==
  /\ timerQ # <<>>
  /\ LET r == Head(timerQ)
         tabId == req[r].tabId
     IN IF pendingSignalCollections[tabId] # 0
        THEN /\ pendingSignalCollections' =
                  Removed(pendingSignalCollections, tabId)
             /\ CallResolver(r, FallbackSignals(req[r].url), 0)
        ELSE UNCHANGED <<pendingSignalCollections, pc, sig, sigFrom,
                         pendingAnalyses, resolveCalls, response>>
  /\ timerQ' = Tail(timerQ)
  /\ UNCHANGED <<now, advances, cachedResults, currentTabResults, req, snap,
                 tsnap, result, msg, xpc, xsnap, xres, sigReply,
                 calls, auxVars>>

\* ---------------------------------------------------------- analyzeSignals
\* The simulated network delay is over: simulateAnalysis computes the result
\* and setCachedResult reads the settings, then issues its read of
\* cachedResults.  (The settings read touches nothing another handler writes,
\* so the two resumptions are one action, placed at the second.)
AnalyzeCompute(r) ==
  /\ pc[r] = "delay"
  /\ ~ScoringThrows(sig[r])
  /\ result' = [result EXCEPT ![r] = simulateAnalysis(sig[r], r)]
  /\ snap' = [snap EXCEPT ![r] = cachedResults]
  /\ pc' = [pc EXCEPT ![r] = "put_write"]
  /\ UNCHANGED <<now, advances, cachedResults, currentTabResults,
                 pendingAnalyses, pendingSignalCollections, timerQ, req, tsnap,
                 sig, response, msg, xpc, xsnap, xres, resolveCalls, sigFrom,
                 sigReply, calls, auxVars>>

\* setCachedResult resumes with what it read, sets the entry of the bundle's
\* domain and stores the whole object.  The clock is read twice.
SetCachedWrite(r) ==
  /\ pc[r] = "put_write"
  /\ \E d \in Elapsed : \E j \in Jitter(d) :
       /\ now' = now + d + j
       /\ advances' = advances + Moved(d) + Moved(j)
       /\ cachedResults' = PutInto(snap[r], sig[r].domain,
            MakeEntry(result[r], now + d, now + d + j, getSettings))
  /\ snap' = [snap EXCEPT ![r] = EmptyCache]
  /\ pc' = [pc EXCEPT ![r] = "session_read"]
  /\ UNCHANGED <<currentTabResults, pendingAnalyses, pendingSignalCollections,
                 timerQ, req, tsnap, sig, result, response, msg, xpc, xsnap,
                 xres, resolveCalls, sigFrom, sigReply, calls, auxVars>>

\* setCachedResult has returned: chrome.storage.session.get is issued.
SessionRead(r) ==
  /\ pc[r] = "session_read"
  /\ tsnap' = [tsnap EXCEPT ![r] = currentTabResults]
  /\ pc' = [pc EXCEPT ![r] = "session_write"]
  /\ UNCHANGED <<now, advances, cachedResults, currentTabResults,
                 pendingAnalyses, pendingSignalCollections, timerQ, req, snap,
                 sig, result, response, msg, xpc, xsnap, xres, resolveCalls,
                 sigFrom, sigReply, calls, auxVars>>

\* An exit that counts the analysis out only when it succeeded.
AnalyzeExitOnSuccess(r, answer) ==
  /\ pendingAnalyses' =
       IF answer.kind = "ok" THEN pendingAnalyses - 1 ELSE pendingAnalyses
  /\ response' = [response EXCEPT ![r] = answer]
  /\ pc' = [pc EXCEPT ![r] = "done"]
  /\ tsnap' = [tsnap EXCEPT ![r] = EmptyTabResults]

\* The finally block of analyzeSignals, and the answer of the handler.
AnalyzeExit(r, answer) ==
  /\ pendingAnalyses' = pendingAnalyses - 1
  /\ response' = [response EXCEPT ![r] = answer]
  /\ pc' = [pc EXCEPT ![r] = "done"]
  /\ tsnap' = [tsnap EXCEPT ![r] = EmptyTabResults]

\* The session read resumes: tabResults[tabId] = result and the set is issued;
\* or the read failed and the exception leaves analyzeSignals.
SessionWrite(r) ==
  /\ pc[r] = "session_write"
  /\ \/ /\ currentTabResults' = [tsnap[r] EXCEPT ![req[r].tabId] = result[r]]
        /\ pc' = [pc EXCEPT ![r] = "finish"]
        /\ tsnap' = [tsnap EXCEPT ![r] = EmptyTabResults]
        /\ UNCHANGED <<pendingAnalyses, response>>
     \/ /\ AnalyzeExit(r, [kind |-> "error"])
        /\ UNCHANGED currentTabResults
  /\ UNCHANGED <<now, advances, cachedResults, pendingSignalCollections, timerQ,
                 req, snap, sig, result, msg, xpc, xsnap, xres, resolveCalls,
                 sigFrom, sigReply, calls, auxVars>>

\* An answer taken from the session map of tab results instead.
AnalyzeAnswerFromTab(r) ==
  [kind |-> "ok", result |-> currentTabResults[req[r].tabId],
   fromCache |-> FALSE]

\* return { result, fromCache: false }, result being what analyzeSignals
\* returned to this handler.
AnalyzeAnswer(r) ==
  [kind |-> "ok", result |-> result[r], fromCache |-> FALSE]

\* The session write resumes: generateExplanationAsync(result) is started and
\* the result returned; or the write failed and the exception leaves.
AnalyzeFinish(r) ==
  /\ pc[r] = "finish"
  /\ \/ /\ AnalyzeExit(r, AnalyzeAnswer(r))
        /\ xpc' = [xpc EXCEPT ![r] = "delay"]
     \/ /\ AnalyzeExit(r, [kind |-> "error"])
        /\ UNCHANGED xpc
  /\ UNCHANGED <<now, advances, cachedResults, currentTabResults,
                 pendingSignalCollections, timerQ, req, snap, sig, result, msg,
                 xsnap, xres, resolveCalls, sigFrom, sigReply, calls, auxVars>>

\* The simulated network delay is over and simulateAnalysis throws: the
\* finally block runs and the exception leaves analyzeSignals and the handler.
AnalyzeThrows(r) ==
  /\ pc[r] = "delay"
  /\ ScoringThrows(sig[r])
  /\ AnalyzeExit(r, [kind |-> "error"])
  /\ UNCHANGED <<now, advances, cachedResults, currentTabResults,
                 pendingSignalCollections, timerQ, req, snap, sig, result, msg,
                 xpc, xsnap, xres, resolveCalls, sigFrom, sigReply, calls,
                 auxVars>>

\* A SIGNALS_COLLECTED with an incomplete bundle arrives from r's tab in
\* answer to its COLLECT_SIGNALS; the handler treats it as any other.
SignalsIncomplete(r) ==
  /\ msg[r] \in {"sent1", "sent2"}
  /\ LET tabId == req[r].tabId
         signals == PartialSignals(TabPage(tabId))
         q == pendingSignalCollections[tabId]
     IN IF q # 0
        THEN /\ CallResolver(q, signals, r)
             /\ pendingSignalCollections' =
                  Removed(pendingSignalCollections, tabId)
        ELSE UNCHANGED <<pendingSignalCollections, pc, sig, sigFrom,
                         pendingAnalyses, resolveCalls, response>>
  /\ sigReply' = [sigReply EXCEPT ![r] = "success"]
  /\ msg' = [msg EXCEPT ![r] = "end"]
  /\ UNCHANGED <<now, advances, cachedResults, currentTabResults, timerQ, req,
                 snap, tsnap, result, xpc, xsnap, xres, calls, auxVars>>

\* ------------------------------------------------ generateExplanationAsync
\* The explanation delay is over: simulateExplanation, then getCachedResult
\* issues its storage read.
ExplainLookup(r) ==
  /\ xpc[r] = "delay"
  /\ xsnap' = [xsnap EXCEPT ![r] = cachedResults]
  /\ xpc' = [xpc EXCEPT ![r] = "check"]
  /\ UNCHANGED <<now, advances, cachedResults, currentTabResults,
                 pendingAnalyses, pendingSignalCollections, timerQ, pc, req,
                 snap, tsnap, sig, result, response, msg, xres, resolveCalls,
                 sigFrom, sigReply, calls, auxVars>>

\* getCachedResult(result.domain) resumes.
ExplainCheck(r) ==
  /\ xpc[r] = "check"
  /\ LET domain == result[r].domain
         cachedItem == xsnap[r][domain]
     IN \/ \* no entry: nothing to update
           /\ cachedItem = NoEntry
           /\ xpc' = [xpc EXCEPT ![r] = "done"]
           /\ UNCHANGED <<now, advances, cachedResults, xres>>
        \/ \* an entry: the clock is read
           /\ cachedItem # NoEntry
           /\ \E d \in Elapsed :
                /\ now' = now + d
                /\ advances' = advances + Moved(d)
                /\ IF Expired(cachedItem, now + d)
                   THEN \* evicted, nothing to update
                        /\ cachedResults' = EvictFrom(xsnap[r], domain)
                        /\ xpc' = [xpc EXCEPT ![r] = "done"]
                        /\ UNCHANGED xres
                   ELSE \* cached.result.explanation = complete;
                        \* setCachedResult is called and reads the settings
                        /\ xres' = [xres EXCEPT ![r] =
                             [cachedItem.result EXCEPT
                                !.explanation = "complete"]]
                        /\ xpc' = [xpc EXCEPT ![r] = "put_read"]
                        /\ UNCHANGED cachedResults
  /\ xsnap' = [xsnap EXCEPT ![r] = EmptyCache]
  /\ UNCHANGED <<currentTabResults, pendingAnalyses, pendingSignalCollections,
                 timerQ, pc, req, snap, tsnap, sig, result, response, msg,
                 resolveCalls, sigFrom, sigReply, calls, auxVars>>

\* setCachedResult issues its read of cachedResults.
ExplainPutRead(r) ==
  /\ xpc[r] = "put_read"
  /\ xsnap' = [xsnap EXCEPT ![r] = cachedResults]
  /\ xpc' = [xpc EXCEPT ![r] = "put_write"]
  /\ UNCHANGED <<now, advances, cachedResults, currentTabResults,
                 pendingAnalyses, pendingSignalCollections, timerQ, pc, req,
                 snap, tsnap, sig, result, response, msg, xres, resolveCalls,
                 sigFrom, sigReply, calls, auxVars>>

\* setCachedResult stores the updated result under result.domain.
ExplainPutWrite(r) ==
  /\ xpc[r] = "put_write"
  /\ \E d \in Elapsed : \E j \in Jitter(d) :
       /\ now' = now + d + j
       /\ advances' = advances + Moved(d) + Moved(j)
       /\ cachedResults' = PutInto(xsnap[r], result[r].domain,
            MakeEntry(xres[r], now + d, now + d + j, getSettings))
  /\ xsnap' = [xsnap EXCEPT ![r] = EmptyCache]
  /\ xpc' = [xpc EXCEPT ![r] = "notify"]
  /\ UNCHANGED <<currentTabResults, pendingAnalyses, pendingSignalCollections,
                 timerQ, pc, req, snap, tsnap, sig, result, response, msg, xres,
                 resolveCalls, sigFrom, sigReply, calls, auxVars>>

\* The ANALYSIS_RESULT broadcast of the updated result.
ExplainNotify(r) ==
  /\ xpc[r] = "notify"
  /\ xpc' = [xpc EXCEPT ![r] = "done"]
  /\ UNCHANGED <<now, advances, cachedResults, currentTabResults,
                 pendingAnalyses, pendingSignalCollections, timerQ, pc, req,
                 snap, tsnap, sig, result, response, msg, xsnap, xres,
                 resolveCalls, sigFrom, sigReply, calls, auxVars>>

\* --------------------------------------------------------- specification
Next ==
  \/ \E r \in Reqs, t \in Tabs, u \in Urls : AnalyzePage(r, t, u)
  \/ \E r \in Reqs : GetCachedResume(r)
  \/ \E r \in Reqs : EvictResume(r)
  \/ \E r \in Reqs : InjectAndResend(r)
  \/ \E r \in Reqs : InjectFails(r)
  \/ \E r \in Reqs : ResendFails(r)
  \/ \E r \in Reqs : SignalsCollected(r)
  \/ CollectTimeout
  \/ \E r \in Reqs : AnalyzeCompute(r)
  \/ \E r \in Reqs : SetCachedWrite(r)
  \/ \E r \in Reqs : SessionRead(r)
  \/ \E r \in Reqs : SessionWrite(r)
  \/ \E r \in Reqs : AnalyzeFinish(r)
  \/ \E r \in Reqs : ExplainLookup(r)
  \/ \E r \in Reqs : ExplainCheck(r)
  \/ \E r \in Reqs : ExplainPutRead(r)
  \/ \E r \in Reqs : ExplainPutWrite(r)
  \/ \E r \in Reqs : ExplainNotify(r)

Spec == Init /\ [][Next]_vars

\* The same, with content that may answer with an incomplete bundle.
NextScoring ==
  \/ Next
  \/ \E r \in Reqs : SignalsIncomplete(r)
  \/ \E r \in Reqs : AnalyzeThrows(r)

SpecScoring == Init /\ [][NextScoring]_vars

\* ============================================================ properties
\* Request r's collection promise was resolved by its own 10 s timer.
TimedOut(r) == sig[r] # NoSignals /\ sigFrom[r] = 0

\* Request r's 10 s timer has not fired yet.
TimerArmed(r) == \E i \in 1..Len(timerQ) : timerQ[i] = r

\* A result as simulateAnalysis made it, before its explanation completed.
AsComputed(res) == [res EXCEPT !.explanation = "pending"]

\* Request r went through analyzeSignals and was answered with its result.
Analyzed(r) == response[r].kind = "ok" /\ ~response[r].fromCache

\* C1: every call of collectSignalsFromTab settles, so no request is ever
\* left collecting with nothing that could still settle its promise: its
\* resolver is registered under its tab, or its timer is still to fire, or
\* its COLLECT_SIGNALS send can still fail.
C1_EveryCollectionSettles ==
  \A r \in Reqs :
    pc[r] = "collecting" =>
      \/ pendingSignalCollections[req[r].tabId] = r
      \/ TimerArmed(r)
      \/ msg[r] \in {"sent1", "sent2"}

\* C2: when getCachedResult of an ANALYZE_PAGE handler finds an entry of the
\* url's domain that has not expired, the handler answers that entry's result
\* with fromCache true, and sends no COLLECT_SIGNALS, registers no resolver,
\* sets no timer and leaves pendingAnalyses as it was.
C2_CacheHitAnswers ==
  [][\A r \in Reqs :
       LET cachedItem == snap[r][getDomainFromUrl(req[r].url)]
       IN (/\ pc[r] = "lookup" /\ pc'[r] # "lookup"
           /\ cachedItem # NoEntry
           /\ cachedItem.expiresAt >= now')
          => /\ response'[r] = [kind |-> "ok", result |-> cachedItem.result,
                                fromCache |-> TRUE]
             /\ pc'[r] = "done"
             /\ msg' = msg
             /\ pendingSignalCollections' = pendingSignalCollections
             /\ timerQ' = timerQ
             /\ pendingAnalyses' = pendingAnalyses]_vars

\* A request was answered from the cache while nothing was being collected.
C2_Witness ==
  \E r \in Reqs :
    /\ response[r].kind = "ok" /\ response[r].fromCache
    /\ response[r].result.kind = "result"
    /\ msg[r] = "none" /\ sig[r] = NoSignals

\* C3: when the timer of a request that still waits fires while the request's
\* resolver is registered under its tab, the resolver is called for the first
\* and only time, with a bundle of no cookies, trackers, techniques or
\* headers whose ssl.valid says whether the url starts with https://, and the
\* tab has no resolver afterwards; a request resolved by its timer never has
\* its resolver called again.
C3_TimeoutResolvesOnce ==
  /\ [][\A r \in Reqs :
          (/\ timerQ # <<>> /\ Head(timerQ) = r /\ timerQ' = Tail(timerQ)
           /\ pc[r] = "collecting"
           /\ pendingSignalCollections[req[r].tabId] = r)
          => /\ resolveCalls[r] = 0 /\ resolveCalls'[r] = 1
             /\ pc'[r] = "delay"
             /\ sig'[r].url = req[r].url
             /\ sig'[r].cookies = 0 /\ sig'[r].trackers = 0
             /\ sig'[r].techniques = 0 /\ sig'[r].headersPresent = 0
             /\ sig'[r].headersMissing = 0 /\ sig'[r].headersIssues = 0
             /\ sig'[r].sslValid = (req[r].url.scheme = "https")
             /\ pendingSignalCollections'[req[r].tabId] = 0]_vars
  /\ [](\A r \in Reqs : TimedOut(r) => resolveCalls[r] = 1)

\* The second request, alone on tab 2 with an http url, was resolved by its
\* timer with the fallback bundle.
C3_Witness ==
  /\ req[2].tabId = 2 /\ req[1].tabId = 1
  /\ TimedOut(2) /\ resolveCalls[2] = 1
  /\ req[2].url.scheme = "http" /\ ~sig[2].sslValid
  /\ pendingSignalCollections[2] = 0

\* C4: when SIGNALS_COLLECTED arrives from tab t and a resolver is registered
\* under t, that resolver and no other is called once, with the signals of
\* the message, and t has no resolver afterwards; when none is registered the
\* Coordinator's state is left as it was; the message is answered
\* {success: true} either way.
C4_SignalsCollectedHandler ==
  [][\A r \in Reqs :
       LET t == req[r].tabId
           q == pendingSignalCollections[t]
       IN (msg[r] \in {"sent1", "sent2"} /\ sigReply[r] = "none"
           /\ sigReply'[r] # "none")
          => /\ sigReply'[r] = "success"
             /\ q # 0 =>
                  /\ resolveCalls' = [resolveCalls EXCEPT ![q] = @ + 1]
                  /\ pc[q] = "collecting" =>
                       /\ sig'[q] = collectAllSignals(TabPage(t))
                       /\ sigFrom'[q] = r
                  /\ pendingSignalCollections' =
                       [pendingSignalCollections EXCEPT ![t] = 0]
             /\ q = 0 =>
                  /\ resolveCalls' = resolveCalls
                  /\ UNCHANGED <<pendingSignalCollections, pendingAnalyses,
                                 cachedResults, currentTabResults, timerQ, pc,
                                 sig, sigFrom, result, response>>]_vars

\* One message resolved a request, and another message found no resolver.
C4_Witness ==
  /\ \E q \in Reqs : sigFrom[q] # 0 /\ resolveCalls[q] = 1
                     /\ sig[q] = collectAllSignals(TabPage(req[q].tabId))
  /\ \E r \in Reqs : sigReply[r] = "success"
                     /\ \A q \in Reqs : sigFrom[q] # r

\* C5: the SIGNALS_COLLECTED that answers a request whose wait has already
\* timed out is dropped: its arrival calls no resolver and its signals reach
\* no analysis.
C5_LateSignalsDropped ==
  [][\A r \in Reqs :
       (msg[r] \in {"sent1", "sent2"} /\ sigReply[r] = "none"
        /\ sigReply'[r] # "none" /\ TimedOut(r))
       => resolveCalls' = resolveCalls /\ sig' = sig /\ pc' = pc]_vars

\* C6: pendingAnalyses is never negative and is the number of analyzeSignals
\* calls that have started and not yet left, whichever way they leave.
InAnalyzeSignals(r) ==
  pc[r] \in {"delay", "put_write", "session_read", "session_write", "finish"}

C6_PendingAnalysesCounts ==
  /\ pendingAnalyses >= 0
  /\ pendingAnalyses = Cardinality({ r \in Reqs : InAnalyzeSignals(r) })

\* Two analyses ran at once; one left by an exception, and one is still in.
C6_Witness ==
  \E r1, r2 \in Reqs :
    /\ response[r1].kind = "error" /\ result[r1] # NoResult
    /\ InAnalyzeSignals(r2) /\ result[r2] # NoResult
    /\ pendingAnalyses = 1

\* C7: a request that ran its own analysis is answered with the result that
\* analysis computed from the signals the request was given, never with
\* another request's; a request answered from the cache carries a result
\* stored under its url's domain; and once two requests have analysed the
\* same domain, no third analysis having run, the entry of that domain holds
\* the result of one of them (it is absent only after a cache lifetime has
\* passed).
C7_OwnResultLastWriteWins ==
  /\ \A r \in Reqs :
       Analyzed(r) =>
         /\ response[r].result = result[r]
         /\ result[r].id = r
         /\ result[r].signals = sig[r]
  /\ \A r \in Reqs :
       (response[r].kind = "ok" /\ response[r].fromCache) =>
         /\ response[r].result.domain = getDomainFromUrl(req[r].url)
         /\ \E q \in Reqs : AsComputed(response[r].result) = result[q]
  /\ \A r1, r2 \in Reqs :
       (r1 # r2 /\ Analyzed(r1) /\ Analyzed(r2)
        /\ sig[r1].domain = sig[r2].domain
        /\ \A q \in Reqs \ {r1, r2} : sig[q] = NoSignals) =>
         LET item == cachedResults[sig[r1].domain]
         IN /\ item = NoEntry => now >= ExpirationMs(cacheExpiration)
            /\ item # NoEntry =>
                 AsComputed(item.result) \in {result[r1], result[r2]}

\* Both requests analysed a.com and were answered, each with its own result;
\* the entry holds the first request's result, written after the second's.
C7_Witness ==
  /\ Analyzed(1) /\ Analyzed(2)
  /\ sig[1].domain = sig[2].domain
  /\ response[1].result.id = 1 /\ response[2].result.id = 2
  /\ cachedResults[sig[1].domain] # NoEntry
  /\ cachedResults[sig[1].domain].result = result[1]

\* ------------------------------------------------ the cache, call by call
\* getCachedResult(domain) and setCachedResult(domain, result) as single
\* calls, each run to its end before the next one starts: the read, the
\* decision and the write of one call, from the same definitions as above.
\* `calls` records each call: the domain asked, the entry stored under it
\* before (had) and after (left) the call, the clock as the call read it (at),
\* and what the call returned (ret) or was given (arg).
\* The results a caller passes for a domain: analyses (two of them, told
\* apart by their id) of a page of that domain, as analyzeSignals passes
\* signals.domain with the result made from those signals.
CacheResults(domain) ==
  { simulateAnalysis(FallbackSignals(u), id) :
      u \in { v \in Urls : getDomainFromUrl(v) = domain }, id \in {1, 2} }

getCachedResult(domain) ==
  /\ Len(calls) < MaxCalls
  /\ LET cached == cachedResults
         cachedItem == cached[domain]
     IN IF cachedItem = NoEntry
        THEN /\ calls' = Append(calls,
                  [op |-> "get", domain |-> domain, had |-> NoEntry,
                   at |-> now, waited |-> 0, ret |-> NoEntry,
                   left |-> NoEntry])
             /\ UNCHANGED <<now, advances, cachedResults>>
        ELSE \E d \in Elapsed :
               /\ now' = now + d
               /\ advances' = advances + Moved(d)
               /\ IF Expired(cachedItem, now + d)
                  THEN /\ cachedResults' = EvictFrom(cached, domain)
                       /\ calls' = Append(calls,
                            [op |-> "get", domain |-> domain,
                             had |-> cachedItem, at |-> now + d,
                             waited |-> d, ret |-> NoEntry,
                             left |-> EvictFrom(cached, domain)[domain]])
                  ELSE /\ UNCHANGED cachedResults
                       /\ calls' = Append(calls,
                            [op |-> "get", domain |-> domain,
                             had |-> cachedItem, at |-> now + d,
                             waited |-> d, ret |-> cachedItem,
                             left |-> cached[domain]])
  /\ UNCHANGED coordVars

setCachedResult(domain, res) ==
  /\ Len(calls) < MaxCalls
  /\ \E d \in Elapsed : \E j \in Jitter(d) :
       LET stored == PutInto(cachedResults, domain,
                       MakeEntry(res, now + d, now + d + j, getSettings))
       IN /\ now' = now + d + j
          /\ advances' = advances + Moved(d) + Moved(j)
          /\ cachedResults' = stored
          /\ calls' = Append(calls,
               [op |-> "set", domain |-> domain, arg |-> res,
                had |-> cachedResults[domain], at |-> now + d,
                between |-> j, left |-> stored[domain]])
  /\ UNCHANGED coordVars

NextCache ==
  \/ \E d \in Domains : getCachedResult(d)
  \/ \E d \in Domains : \E res \in CacheResults(d) : setCachedResult(d, res)

SpecCache == Init /\ [][NextCache]_vars

\* ------------------------------------------------ properties of the cache
\* Call i is a getCachedResult that found an entry whose expiresAt is
\* earlier than the clock it read.
GetExpired(i) ==
  /\ calls[i].op = "get" /\ calls[i].had # NoEntry
  /\ calls[i].had.expiresAt < calls[i].at

\* Call i is a getCachedResult that found an entry that has not expired.
GetLive(i) ==
  /\ calls[i].op = "get" /\ calls[i].had # NoEntry
  /\ calls[i].had.expiresAt >= calls[i].at

\* Calls i and i + 1 are a setCachedResult and then a call of kind op, both
\* for the same domain.
SetThen(i, op) ==
  /\ i + 1 <= Len(calls)
  /\ calls[i].op = "set" /\ calls[i + 1].op = op
  /\ calls[i].domain = calls[i + 1].domain

\* C8: a getCachedResult that finds an entry whose expiresAt is earlier than
\* now returns null and leaves the store without that entry, so that a get
\* of the same domain right after finds no entry and returns null; a get that
\* finds an entry not yet expired returns it and leaves it stored.
C8_ExpiredEntryEvicted ==
  \A i \in 1..Len(calls) :
    /\ GetExpired(i) =>
         /\ calls[i].ret = NoEntry
         /\ calls[i].left = NoEntry
         /\ i = Len(calls) => cachedResults[calls[i].domain] = NoEntry
         /\ (i < Len(calls) /\ calls[i + 1].op = "get"
             /\ calls[i + 1].domain = calls[i].domain) =>
              calls[i + 1].had = NoEntry /\ calls[i + 1].ret = NoEntry
    /\ GetLive(i) =>
         /\ calls[i].ret = calls[i].had
         /\ calls[i].left = calls[i].had
         /\ i = Len(calls) => cachedResults[calls[i].domain] = calls[i].had

\* An entry was returned by one get, found expired by the next get of its
\* domain, and missing at the get after that.
C8_Witness ==
  /\ Len(calls) = 4
  /\ GetLive(2) /\ calls[2].ret = calls[2].had
  /\ GetExpired(3) /\ calls[3].domain = calls[2].domain
  /\ calls[4].op = "get" /\ calls[4].domain = calls[3].domain
  /\ calls[4].ret = NoEntry

\* C9: after setCachedResult(d, r1) and then setCachedResult(d, r2) the store
\* has one entry for d and its result is r2; the store never has more entries
\* than domains that were set.
C9_SecondSetReplaces ==
  /\ \A i \in 1..Len(calls) :
       SetThen(i, "set") =>
         /\ calls[i + 1].left.kind = "entry"
         /\ calls[i + 1].left.result = calls[i + 1].arg
         /\ i + 1 = Len(calls) =>
              cachedResults[calls[i].domain].result = calls[i + 1].arg
  /\ Cardinality({ d \in Domains : cachedResults[d] # NoEntry })
       <= Cardinality({ calls[i].domain :
                          i \in { k \in 1..Len(calls) : calls[k].op = "set" } })

\* Two different results were set for one domain, one after the other.
C9_Witness ==
  \E i \in 1..Len(calls) :
    /\ SetThen(i, "set") /\ i + 1 = Len(calls)
    /\ calls[i].arg # calls[i + 1].arg
    /\ cachedResults[calls[i].domain].result = calls[i + 1].arg
    /\ Cardinality({ d \in Domains : cachedResults[d] # NoEntry }) = 1

\* C10 as stated: setCachedResult(d, r) and then at once getCachedResult(d)
\* returns an entry whose result is r and whose expiresAt minus cachedAt is
\* exactly the configured hours.
C10_LifetimeExact ==
  \A i \in 1..Len(calls) :
    (SetThen(i, "get") /\ calls[i + 1].waited = 0) =>
      /\ calls[i + 1].ret # NoEntry
      /\ calls[i + 1].ret.result = calls[i].arg
      /\ calls[i + 1].ret.expiresAt - calls[i + 1].ret.cachedAt
           = cacheExpiration * HourMs

\* C10: setCachedResult(d, r) and then at once getCachedResult(d) returns an
\* entry whose result is r and whose expiresAt minus cachedAt is the
\* configured hours plus the time that passed between the two clock reads of
\* setCachedResult, so never less than the configured hours.
C10_LifetimeAtLeast ==
  \A i \in 1..Len(calls) :
    (SetThen(i, "get") /\ calls[i + 1].waited = 0) =>
      /\ calls[i + 1].ret # NoEntry
      /\ calls[i + 1].ret.result = calls[i].arg
      /\ calls[i + 1].ret.expiresAt - calls[i + 1].ret.cachedAt
           = cacheExpiration * HourMs + calls[i].between
      /\ calls[i + 1].ret.expiresAt - calls[i + 1].ret.cachedAt
           >= cacheExpiration * HourMs

\* A set whose two clock reads fell in different milliseconds, and the get
\* right after it returning what was set.
C10_Witness ==
  \E i \in 1..Len(calls) :
    /\ SetThen(i, "get") /\ calls[i + 1].waited = 0
    /\ calls[i].between > 0
    /\ calls[i + 1].ret # NoEntry
    /\ calls[i + 1].ret.result = calls[i].arg

\* ------------------------------------------- the cache under any settings
\* What 'settings'.cacheExpiration may hold when setCachedResult reads it:
\* nothing, the default, or another number of hours (ExtensionSettings
\* declares a number and no code checks it).
StoredSettings == {Unset} \cup { Stored(h) : h \in {cacheExpiration, 1, 0} }

InitSettings == InitState /\ settings \in StoredSettings /\ InitInputs

SpecSettings == InitSettings /\ [][NextCache]_vars

ClearCacheKeeps ==
  /\ Len(calls) < MaxCalls
  /\ calls' = Append(calls,
       [op |-> "clear", had |-> cachedResults, left |-> cachedResults,
        reply |-> "success"])
  /\ UNCHANGED <<now, advances, cachedResults, coordVars>>

\* case 'CLEAR_CACHE': storage.local.set({ cachedResults: {} }), then
\* { success: true }.
ClearCache ==
  /\ Len(calls) < MaxCalls
  /\ cachedResults' = EmptyCache
  /\ calls' = Append(calls,
       [op |-> "clear", had |-> cachedResults, left |-> EmptyCache,
        reply |-> "success"])
  /\ UNCHANGED <<now, advances, coordVars>>

\* { result: cached?.result || null }, NoResult standing for null.
CachedReply(cached) == IF cached = NoEntry THEN NoResult ELSE cached.result

\* case 'GET_CACHED_RESULT': getCachedResult(msg.domain), then the reply.
GetCachedResultMsg(domain) ==
  /\ Len(calls) < MaxCalls
  /\ LET cached == cachedResults
         cachedItem == cached[domain]
     IN IF cachedItem = NoEntry
        THEN /\ calls' = Append(calls,
                  [op |-> "query", domain |-> domain, had |-> NoEntry,
                   at |-> now, waited |-> 0, ret |-> NoEntry,
                   left |-> NoEntry, reply |-> CachedReply(NoEntry)])
             /\ UNCHANGED <<now, advances, cachedResults>>
        ELSE \E d \in Elapsed :
               /\ now' = now + d
               /\ advances' = advances + Moved(d)
               /\ IF Expired(cachedItem, now + d)
                  THEN /\ cachedResults' = EvictFrom(cached, domain)
                       /\ calls' = Append(calls,
                            [op |-> "query", domain |-> domain,
                             had |-> cachedItem, at |-> now + d,
                             waited |-> d, ret |-> NoEntry,
                             left |-> EvictFrom(cached, domain)[domain],
                             reply |-> CachedReply(NoEntry)])
                  ELSE /\ UNCHANGED cachedResults
                       /\ calls' = Append(calls,
                            [op |-> "query", domain |-> domain,
                             had |-> cachedItem, at |-> now + d,
                             waited |-> d, ret |-> cachedItem,
                             left |-> cached[domain],
                             reply |-> CachedReply(cachedItem)])
  /\ UNCHANGED coordVars

NextMessages ==
  \/ NextCache
  \/ ClearCache
  \/ \E d \in Domains : GetCachedResultMsg(d)

SpecMessages == Init /\ [][NextMessages]_vars

\* C12: CLEAR_CACHE leaves cachedResults without any entry and answers
\* {success: true}, and a GET_CACHED_RESULT handled right after it, for
\* whatever domain, answers result null.
C12_ClearCacheEmpties ==
  \A i \in 1..Len(calls) :
    calls[i].op = "clear" =>
      /\ calls[i].reply = "success"
      /\ \A d \in Domains : calls[i].left[d] = NoEntry
      /\ i = Len(calls) => \A d \in Domains : cachedResults[d] = NoEntry
      /\ (i < Len(calls) /\ calls[i + 1].op = "query") =>
           /\ calls[i + 1].reply = NoResult
           /\ calls[i + 1].had = NoEntry

\* Entries of both domains were stored, CLEAR_CACHE removed them, and the
\* GET_CACHED_RESULT after it was answered null.
C12_Witness ==
  /\ Len(calls) = 4
  /\ calls[1].op = "set" /\ calls[2].op = "set"
  /\ calls[3].op = "clear"
  /\ \A d \in Domains : calls[3].had[d] # NoEntry
  /\ calls[4].op = "query" /\ calls[4].reply = NoResult

\* --------------------------------------------------------- the offline queue
\* addToOfflineQueue and removeFromOfflineQueue, called by whoever queues or
\* submits bundles; a call may start while another is suspended at an await.
\* `enqueued` lists the items in the order they were pushed, `dequeued` the
\* ids a removal has filtered out.
Ops == 1..MaxOps

\* What the offline queue calls never touch.
queueRest == <<now, advances, cachedResults, calls, settings,
               currentTabResults, pendingAnalyses, pendingSignalCollections,
               timerQ, pc, req, snap, tsnap, sig, result, response, msg,
               xpc, xsnap, xres, resolveCalls, sigFrom, sigReply,
               statusUpdates, popupOpen, inbox, bundle, runs, cachedRun,
               published, graded, collected>>

\* Offline queue call o is not suspended at an await.
AtRest(o) == qop[o].pc \in {"idle", "done"}

\* generateId(): an id no item has had.
generateId == Len(enqueued) + 1

\* { id: generateId(), signals, queuedAt, retryCount: 0 }; the queue keeps
\* its items in the order of their queuedAt, which is the order of the pushes.
QueueItem(id, signals) == [id |-> id, signals |-> signals, retryCount |-> 0]

\* queue.filter(item => item.id !== id)
Filtered(queue, id) ==
  LET Keep(item) == item.id # id IN SelectSeq(queue, Keep)

\* addToOfflineQueue(signals) is called: getOfflineQueue issues its read.
AddStart(o, signals) ==
  /\ qop[o].pc = "idle"
  /\ \A n \in Ops : n < o => qop[n].pc # "idle"
  /\ qop' = [qop EXCEPT ![o] = [pc |-> "add_read", kind |-> "add", id |-> 0,
                                signals |-> signals, queue |-> offlineQueue]]
  /\ UNCHANGED <<offlineQueue, offlineQueueSize, enqueued, dequeued>>
  /\ UNCHANGED queueRest

\* The read resumes: the item is pushed and the set of the queue is issued.
AddPush(o) ==
  /\ qop[o].pc = "add_read"
  /\ LET item == QueueItem(generateId, qop[o].signals)
         queue == Append(qop[o].queue, item)
     IN /\ offlineQueue' = queue
        /\ enqueued' = Append(enqueued, item)
        /\ qop' = [qop EXCEPT ![o].pc = "add_set", ![o].id = item.id,
                              ![o].queue = queue]
  /\ UNCHANGED <<offlineQueueSize, dequeued>>
  /\ UNCHANGED queueRest

\* The set resumes: updateStatus({ offlineQueueSize: queue.length }).
AddDone(o) ==
  /\ qop[o].pc = "add_set"
  /\ offlineQueueSize' = Len(qop[o].queue)
  /\ qop' = [qop EXCEPT ![o].pc = "done"]
  /\ UNCHANGED <<offlineQueue, enqueued, dequeued>>
  /\ UNCHANGED queueRest

\* removeFromOfflineQueue(id) is called for an item that was queued:
\* getOfflineQueue issues its read.
RemoveStart(o, id) ==
  /\ qop[o].pc = "idle"
  /\ \A n \in Ops : n < o => qop[n].pc # "idle"
  /\ id \in { enqueued[i].id : i \in 1..Len(enqueued) }
  /\ qop' = [qop EXCEPT ![o] = [pc |-> "rm_read", kind |-> "remove",
                                id |-> id, signals |-> NoSignals,
                                queue |-> offlineQueue]]
  /\ UNCHANGED <<offlineQueue, offlineQueueSize, enqueued, dequeued>>
  /\ UNCHANGED queueRest

\* The read resumes: the queue is filtered and the set issued.
RemoveFilter(o) ==
  /\ qop[o].pc = "rm_read"
  /\ LET filtered == Filtered(qop[o].queue, qop[o].id)
     IN /\ offlineQueue' = filtered
        /\ qop' = [qop EXCEPT ![o].pc = "rm_set", ![o].queue = filtered]
  /\ dequeued' = dequeued \cup {qop[o].id}
  /\ UNCHANGED <<offlineQueueSize, enqueued>>
  /\ UNCHANGED queueRest

\* The set resumes: updateStatus({ offlineQueueSize: filtered.length }).
RemoveDone(o) ==
  /\ qop[o].pc = "rm_set"
  /\ offlineQueueSize' = Len(qop[o].queue)
  /\ qop' = [qop EXCEPT ![o].pc = "done"]
  /\ UNCHANGED <<offlineQueue, enqueued, dequeued>>
  /\ UNCHANGED queueRest

\* The browser stops the idle service worker and starts it again: the module
\* is evaluated anew, extensionStatus with it; chrome.storage.local persists.
Restart ==
  /\ \A o \in Ops : AtRest(o)
  /\ offlineQueueSize # 0
  /\ offlineQueueSize' = 0
  /\ UNCHANGED <<offlineQueue, qop, enqueued, dequeued>>
  /\ UNCHANGED queueRest

QueueSignals == { FallbackSignals(u) : u \in Urls }

NextQueue ==
  \/ \E o \in Ops, signals \in QueueSignals : AddStart(o, signals)
  \/ \E o \in Ops : AddPush(o)
  \/ \E o \in Ops : AddDone(o)
  \/ \E o \in Ops, id \in Ops : RemoveStart(o, id)
  \/ \E o \in Ops : RemoveFilter(o)
  \/ \E o \in Ops : RemoveDone(o)
  \/ Restart

SpecQueue == Init /\ [][NextQueue]_vars

\* C13: whenever no offline queue call is suspended, that is after every
\* addToOfflineQueue and removeFromOfflineQueue and at start-up,
\* extensionStatus.offlineQueueSize is the length of the persisted queue.
C13_QueueSizeMirrors ==
  (\A o \in Ops : AtRest(o)) => offlineQueueSize = Len(offlineQueue)

\* C14: whenever no offline queue call is suspended, the persisted queue
\* lists every item that was enqueued and not removed, in enqueue order.
C14_QueueKeepsOrder ==
  (\A o \in Ops : AtRest(o)) =>
    LET Kept(item) == item.id \notin dequeued
    IN offlineQueue = SelectSeq(enqueued, Kept)

\* ------------------------------------------------ properties of failures
\* C15: a collection that fails (the tab cannot be reached, the injection
\* fails) is replaced by the fallback bundle, so a request whose collection
\* gave it no signals is never answered with an error.
C15_CollectionFailureRecovered ==
  \A r \in Reqs : sig[r] = NoSignals => response[r].kind # "error"

\* C16: a storage call that fails while a request is handled is recovered
\* locally, so a request whose analysis has computed its result, with only
\* storage calls left to make, is never answered with an error.
C16_StorageFailureRecovered ==
  \A r \in Reqs : result[r] # NoResult => response[r].kind # "error"

\* C17: when simulateAnalysis throws, the request is answered with an error,
\* the step stores nothing in the cache, the analysis is counted out again,
\* and no entry of the cache ever holds a result of that request.
C17_ScoringFailureIsFatal ==
  /\ [][\A r \in Reqs :
          (pc[r] = "delay" /\ sig[r].kind = "partial" /\ pc'[r] # "delay")
          => /\ response'[r] = [kind |-> "error"]
             /\ pc'[r] = "done"
             /\ result'[r] = NoResult
             /\ cachedResults' = cachedResults
             /\ currentTabResults' = currentTabResults
             /\ pendingAnalyses' = pendingAnalyses - 1]_vars
  /\ [](\A r \in Reqs :
          sig[r].kind = "partial" =>
            /\ \A d \in Domains :
                 cachedResults[d] # NoEntry => cachedResults[d].result.id # r
            /\ pendingAnalyses
                 = Cardinality({ q \in Reqs : InAnalyzeSignals(q) }))

\* The first request stored its result; the second was given an incomplete
\* bundle and was answered with an error, the entry and the count as before.
C17_Witness ==
  /\ Analyzed(1)
  /\ sig[2].kind = "partial" /\ response[2].kind = "error"
  /\ \E d \in Domains :
       cachedResults[d] # NoEntry /\ cachedResults[d].result.id = 1
  /\ pendingAnalyses = 0

\* C18: the explanation status stored in the cache for a result (by id) never
\* goes back: an entry that holds a result with a complete explanation does
\* not hold the same result with an earlier status after any step.
C18_StatusOnlyAdvances ==
  [][\A d \in Domains :
       (/\ cachedResults[d] # NoEntry
        /\ cachedResults[d].result.explanation = "complete"
        /\ cachedResults'[d] # NoEntry
        /\ cachedResults'[d].result.id = cachedResults[d].result.id)
       => cachedResults'[d].result.explanation = "complete"]_vars

\* The lookup of the generator found no live entry at this step.
LookupMisses(r) ==
  /\ xpc[r] = "check"
  /\ xpc'[r] # "check"
  /\ \/ xsnap[r][result[r].domain] = NoEntry
     \/ Expired(xsnap[r][result[r].domain], now')

\* C19: when the generator's lookup returns nothing, the generator ends
\* without a broadcast and writes nothing to the cache: in particular the
\* step leaves the entry of every other domain as it is.
C19_MissWritesNothing ==
  [][\A r \in Reqs :
       LookupMisses(r) =>
         /\ xpc'[r] = "done"
         /\ \A d \in Domains \ {result[r].domain} :
              cachedResults'[d] = cachedResults[d]]_vars

\* C20: a non-cached ANALYZE_PAGE is answered after setCachedResult has
\* stored its result, with explanation status pending, and every
\* ANALYSIS_RESULT broadcast that carries a result with its completed
\* explanation is sent after the response that carries that result.
C20_ResponseBeforeBroadcast ==
  /\ [](\A r \in Reqs :
          (response[r].kind = "ok" /\ ~response[r].fromCache) =>
            /\ response[r].result = result[r]
            /\ response[r].result.explanation = "pending")
  /\ [][\A r \in Reqs :
          (response[r] = NoResponse /\ response'[r].kind = "ok"
             /\ ~response'[r].fromCache)
          => pc[r] = "finish"]_vars
  /\ [][\A q \in Reqs :
          (xpc[q] = "notify" /\ xpc'[q] = "done")
          => /\ xres[q].explanation = "complete"
             /\ response[xres[q].id] # NoResponse]_vars

\* C21: at the step that broadcasts ANALYSIS_RESULT, the persisted entry that
\* holds the broadcast result (by id) holds it with the explanation that is
\* broadcast.
C21_BroadcastAfterStore ==
  [][\A q \in Reqs :
       (xpc[q] = "notify" /\ xpc'[q] = "done")
       => LET entry == cachedResults[xres[q].domain]
          IN (entry # NoEntry /\ entry.result.id = xres[q].id)
               => entry.result.explanation = xres[q].explanation]_vars

\* ------------------------------------------------------------ updateStatus
\* Everything but extensionStatus, the broadcasts and the popup.
statusRest == <<now, advances, cachedResults, calls, settings,
                currentTabResults, pendingSignalCollections, timerQ, pc, req,
                snap, tsnap, sig, result, response, msg, xpc, xsnap, xres,
                resolveCalls, sigFrom, sigReply, offlineQueue, qop, enqueued,
                dequeued, inbox, bundle, runs, cachedRun, published, graded,
                collected>>

\* The module variable extensionStatus; isAuthenticated and connectionStatus
\* keep their initial values (all code that sets them is commented out).
extensionStatus ==
  [isAuthenticated |-> FALSE, connectionStatus |-> "offline",
   pendingAnalyses |-> pendingAnalyses, offlineQueueSize |-> offlineQueueSize]

\* { ...extensionStatus, ...partial }
Merged(status, partial) == [status EXCEPT ![partial.field] = partial.value]

\* The partials of the callers of updateStatus.
Partials ==
  { [field |-> "pendingAnalyses", value |-> n] : n \in 0..MaxReq }
  \cup { [field |-> "offlineQueueSize", value |-> n] : n \in 0..MaxOps }

\* What a caller passes: pendingAnalyses + 1 or - 1 (analyzeSignals), or
\* offlineQueueSize: the length of a queue (the offline queue calls).
Passed(partial) ==
  partial.field = "pendingAnalyses" =>
    partial.value \in {pendingAnalyses + 1, pendingAnalyses - 1}

\* A message built before the assignment.
StatusSentStale(before, after) == before

\* status: extensionStatus, read after the assignment.
StatusSent(before, after) == after

\* updateStatus(partial): the assignment, then the broadcast, whose rejection
\* (no popup listening) is swallowed by the catch.
updateStatus(partial) ==
  /\ Len(statusUpdates) < MaxUpdates
  /\ Passed(partial)
  /\ LET before == extensionStatus
         after == Merged(before, partial)
     IN /\ pendingAnalyses' = after.pendingAnalyses
        /\ offlineQueueSize' = after.offlineQueueSize
        /\ statusUpdates' = Append(statusUpdates,
             [type |-> "STATUS_UPDATE", status |-> StatusSent(before, after),
              partial |-> partial, heard |-> popupOpen])
  /\ UNCHANGED <<popupOpen, statusRest>>

\* The user opens the popup.
PopupOpens ==
  /\ ~popupOpen
  /\ popupOpen' = TRUE
  /\ UNCHANGED <<pendingAnalyses, offlineQueueSize, statusUpdates, statusRest>>

\* The popup is closed.
PopupCloses ==
  /\ popupOpen
  /\ popupOpen' = FALSE
  /\ UNCHANGED <<pendingAnalyses, offlineQueueSize, statusUpdates, statusRest>>

NextStatus ==
  \/ \E partial \in Partials : updateStatus(partial)
  \/ PopupOpens
  \/ PopupCloses

SpecStatus == Init /\ [][NextStatus]_vars

\* C22: every step that changes extensionStatus sends exactly one
\* STATUS_UPDATE, carrying the status as it is after the step; a broadcast
\* nobody hears is sent all the same, the change it announces is made, and
\* nothing else changes.
C22_StatusUpdateBroadcast ==
  /\ [][extensionStatus' # extensionStatus =>
          /\ Len(statusUpdates') = Len(statusUpdates) + 1
          /\ SubSeq(statusUpdates', 1, Len(statusUpdates)) = statusUpdates
          /\ statusUpdates'[Len(statusUpdates')].status = extensionStatus'
          /\ statusUpdates'[Len(statusUpdates')].type = "STATUS_UPDATE"]_vars
  /\ [][Len(statusUpdates') > Len(statusUpdates) =>
          /\ extensionStatus' =
               Merged(extensionStatus,
                      statusUpdates'[Len(statusUpdates')].partial)
          /\ UNCHANGED <<popupOpen, statusRest>>]_vars

\* A change of the status was broadcast while no popup was listening, after
\* one that a popup heard.
C22_Witness ==
  \E i \in 2..Len(statusUpdates) :
    /\ statusUpdates[i - 1].heard
    /\ ~statusUpdates[i].heard
    /\ statusUpdates[i].status # statusUpdates[i - 1].status
    /\ i = Len(statusUpdates) => statusUpdates[i].status = extensionStatus

\* ------------------------------------------------------ the message switch
\* Everything but the history of handled messages.
inboxRest == <<now, advances, cachedResults, calls, settings,
               currentTabResults, pendingAnalyses, pendingSignalCollections,
               timerQ, pc, req, snap, tsnap, sig, result, response, msg, xpc,
               xsnap, xres, resolveCalls, sigFrom, sigReply, offlineQueue,
               offlineQueueSize, qop, enqueued, dequeued, statusUpdates,
               popupOpen, bundle, runs, cachedRun, published, graded,
               collected>>

\* The cases of the switch.
HandledTypes ==
  {"SIGNALS_COLLECTED", "ANALYZE_PAGE", "GET_CACHED_RESULT", "GET_STATUS",
   "CLEAR_CACHE", "OPEN_DASHBOARD"}

\* The other members of MessageType, the CONTENT_SCRIPT_READY that the
\* content script sends when it loads, and "" for a message without a type.
OtherTypes ==
  {"COLLECT_SIGNALS", "ANALYSIS_RESULT", "CACHED_RESULT", "STATUS_UPDATE",
   "AUTH_TOKEN_SET", "AUTH_TOKEN_CLEARED", "CONTENT_SCRIPT_READY", ""}

\* switch (message.type): the case taken.
Route(type) == IF type \in HandledTypes THEN type ELSE "default"

\* A switch without a default: handleAsync returns undefined.
NoDefaultReply == [kind |-> "undefined", error |-> ""]

\* default: return { error: 'Unknown message type' }
DefaultReply == [kind |-> "error", error |-> "Unknown message type"]

\* case 'GET_STATUS': { status: extensionStatus }
GetStatus ==
  /\ Len(inbox) < MaxMessages
  /\ Route("GET_STATUS") = "GET_STATUS"
  /\ inbox' = Append(inbox,
       [type |-> "GET_STATUS",
        reply |-> [kind |-> "status", status |-> extensionStatus]])
  /\ UNCHANGED inboxRest

\* A message that no case of the switch names.
UnhandledMessage(type) ==
  /\ Len(inbox) < MaxMessages
  /\ Route(type) = "default"
  /\ inbox' = Append(inbox, [type |-> type, reply |-> DefaultReply])
  /\ UNCHANGED inboxRest

NextListener ==
  \/ \E d \in Domains : \E res \in CacheResults(d) : setCachedResult(d, res)
  \/ ClearCache
  \/ GetStatus
  \/ \E type \in HandledTypes \cup OtherTypes : UnhandledMessage(type)

SpecListener == Init /\ [][NextListener]_vars

\* C23: a message whose type is none of the six handled ones is answered with
\* {error: 'Unknown message type'}, and handling it changes nothing of the
\* coordinator's state.
C23_UnknownTypeAnswered ==
  /\ [](\A i \in 1..Len(inbox) :
          inbox[i].type \notin HandledTypes =>
            inbox[i].reply = [kind |-> "error",
                              error |-> "Unknown message type"])
  /\ [][(/\ Len(inbox') = Len(inbox) + 1
         /\ inbox'[Len(inbox')].type \notin HandledTypes)
        => UNCHANGED inboxRest]_vars

\* A message without a type was answered while the cache held an entry.
C23_Witness ==
  /\ Len(inbox) > 0
  /\ inbox[Len(inbox)].type = ""
  /\ inbox[Len(inbox)].reply.error = "Unknown message type"
  /\ \E d \in Domains : cachedResults[d] # NoEntry

\* ------------------------------------------------------------ the scoring
\* Strings that the scoring searches are sequences of characters.
\* s.includes(p)
Includes(s, p) ==
  \E i \in 1..(Len(s) - Len(p) + 1) : SubSeq(s, i, i + Len(p) - 1) = p

\* s.endsWith(p)
EndsWith(s, p) ==
  /\ Len(p) <= Len(s)
  /\ SubSeq(s, Len(s) - Len(p) + 1, Len(s)) = p

\* s.replace(p, ''): the first occurrence of p removed.
Replace(s, p) ==
  IF Includes(s, p)
  THEN LET i == CHOOSE k \in 1..(Len(s) - Len(p) + 1) :
                  /\ SubSeq(s, k, k + Len(p) - 1) = p
                  /\ \A j \in 1..(k - 1) : SubSeq(s, j, j + Len(p) - 1) # p
       IN SubSeq(s, 1, i - 1) \o SubSeq(s, i + Len(p), Len(s))
  ELSE s

\* s.toLowerCase(), for the letters the pages below use in upper case.
toLowerCase(s) ==
  [i \in DOMAIN s |->
     CASE s[i] = "B" -> "b" [] s[i] = "E" -> "e" [] s[i] = "T" -> "t"
       [] OTHER -> s[i]]

\* Entries of TRUSTED_DOMAINS: 'x.com', 'vercel.app', 'medium.com',
\* 'www.medium.com'.
TRUSTED_DOMAINS ==
  { <<"x", ".", "c", "o", "m">>,
    <<"v", "e", "r", "c", "e", "l", ".", "a", "p", "p">>,
    <<"m", "e", "d", "i", "u", "m", ".", "c", "o", "m">>,
    <<"w", "w", "w", ".", "m", "e", "d", "i", "u", "m", ".", "c", "o", "m">> }

\* Entries of SUSPICIOUS_PATTERNS: 'free', 'bet', '.top'.
SUSPICIOUS_PATTERNS ==
  { <<"f", "r", "e", "e">>, <<"b", "e", "t">>, <<".", "t", "o", "p">> }

\* isTrusted of simulateAnalysis, domain being signals.domain.toLowerCase().
IsTrusted(domain) ==
  \E td \in TRUSTED_DOMAINS :
    \/ domain = td
    \/ EndsWith(domain, <<".">> \o Replace(td, <<"w", "w", "w", ".">>))

\* isSuspicious of simulateAnalysis.
IsSuspicious(domain, url) ==
  \E pattern \in SUSPICIOUS_PATTERNS :
    \/ Includes(domain, pattern)
    \/ Includes(toLowerCase(url), pattern)

\* Math.round(num / den) for den > 0: the nearest integer, halves upwards.
\* (Exact arithmetic; the code computes in double precision.)
Round(num, den) == (2 * num + den) \div (2 * den)

Smaller(a, b) == IF a < b THEN a ELSE b
Larger(a, b) == IF a > b THEN a ELSE b

\* A clamp that lets a score leave the scale at the top.
ClampLow(x) == Larger(0, x)

\* Math.min(100, Math.max(0, x))
Clamp(x) == Smaller(100, Larger(0, x))

\* A multiplier that looks at the suspicious patterns first.
MultiplierSuspiciousFirst(isTrusted, isSuspicious) ==
  IF isSuspicious THEN 6 ELSE IF isTrusted THEN 12 ELSE 10

\* baseMultiplier, in tenths: 1.2, 0.6, 1.0.
Multiplier(isTrusted, isSuspicious) ==
  IF isTrusted THEN 12 ELSE IF isSuspicious THEN 6 ELSE 10

\* riskPenalty[signals.fingerprinting.risk]
RiskPenalty(risk) ==
  CASE risk = "low" -> 0 [] risk = "medium" -> 20 [] risk = "high" -> 40

\* calculateSignalScores.  headers.present is kept as the number of required
\* headers in it and the number of other entries; cookies.secure is the
\* number of cookies with secure && httpOnly.
calculateSignalScores(signals, isTrusted, isSuspicious) ==
  LET m == Multiplier(isTrusted, isSuspicious)
      cookieScore ==
        IF signals.cookies.count > 0
        THEN 85 - Round(signals.cookies.thirdPartyCount * 30,
                        signals.cookies.count)
                + Round(signals.cookies.secure * 15,
                        Larger(signals.cookies.count, 1))
        ELSE 85
      trackerScore == Larger(40, 90 - signals.trackers.detected * 5)
      fingerprintScore ==
        95 - RiskPenalty(signals.fingerprinting.risk)
           - signals.fingerprinting.techniques * 5
      headerScore ==
        80 + (signals.headers.present.required * 20) \div 4
           - signals.headers.missing * 5 - signals.headers.issues * 10
      sslScore == IF signals.ssl.valid THEN 100 ELSE 30
  IN [cookies |-> Clamp(Round(cookieScore * m, 10)),
      trackers |-> Clamp(Round(trackerScore * m, 10)),
      fingerprinting |-> Clamp(Round(fingerprintScore * m, 10)),
      headers |-> Clamp(Round(headerScore * m, 10)),
      ssl |-> Clamp(sslScore)]

\* The draws of Math.floor(Math.random() * n) in enhanceSignals.
Rolls(isTrusted) ==
  [trackers : IF isTrusted THEN 0..2 ELSE 0..4,
   techniques : 0..1,
   issuer : 0..3]

\* issuers[...] of enhanceSignals.
Issuers == <<"Let's Encrypt", "DigiCert Inc", "GlobalSign", "Comodo CA">>

\* enhanceSignals: fills in trackers, headers, fingerprinting and the TLS
\* issuer where the bundle has none.
enhanceSignals(signals, isTrusted, rolls) ==
  LET trackers ==
        IF signals.trackers.detected = 0
        THEN [detected |-> IF isTrusted THEN rolls.trackers
                           ELSE rolls.trackers + 2]
        ELSE signals.trackers
      headers ==
        IF /\ signals.headers.present.required
                + signals.headers.present.other = 0
           /\ signals.headers.missing = 0
        THEN IF isTrusted
             THEN [present |-> [required |-> 4, other |-> 0],
                   missing |-> 1, issues |-> 0]
             ELSE [present |-> [required |-> 1, other |-> 0],
                   missing |-> 4, issues |-> 1]
        ELSE signals.headers
      fingerprinting ==
        IF signals.fingerprinting.techniques = 0
        THEN LET techniques == IF isTrusted THEN 0 ELSE rolls.techniques + 1
             IN [techniques |-> techniques,
                 risk |-> IF techniques = 0 THEN "low"
                          ELSE IF techniques = 1 THEN "medium" ELSE "high"]
        ELSE signals.fingerprinting
      ssl ==
        IF signals.ssl.valid /\ signals.ssl.issuer = ""
        THEN [valid |-> TRUE, issuer |-> Issuers[rolls.issuer + 1]]
        ELSE signals.ssl
  IN [signals EXCEPT !.trackers = trackers, !.headers = headers,
                     !.fingerprinting = fingerprinting, !.ssl = ssl]

\* A verdict with the lower step one point higher.
getVerdictAboveForty(score) ==
  IF score >= 70 THEN "safe" ELSE IF score > 40 THEN "warning" ELSE "danger"

\* getVerdictFromScore
getVerdictFromScore(score) ==
  IF score >= 70 THEN "safe" ELSE IF score >= 40 THEN "warning" ELSE "danger"

\* An average that weighs the five categories alike.
EvenScore(signalScores) ==
  Round(signalScores.ssl + signalScores.headers + signalScores.cookies
          + signalScores.trackers + signalScores.fingerprinting, 5)

\* The weighted average of simulateAnalysis: weights 0.25, 0.20, 0.20, 0.20,
\* 0.15, in hundredths.
WeightedScore(signalScores) ==
  Round(signalScores.ssl * 25 + signalScores.headers * 20
          + signalScores.cookies * 20 + signalScores.trackers * 20
          + signalScores.fingerprinting * 15, 100)

\* simulateAnalysis with its scoring: rolls are the draws of this run, id its
\* generateId().
scoreAnalysis(signals, rolls, id) ==
  LET domain == toLowerCase(signals.domain)
      isTrusted == IsTrusted(domain)
      isSuspicious == IsSuspicious(domain, signals.url)
      enhancedSignals == enhanceSignals(signals, isTrusted, rolls)
      signalScores ==
        calculateSignalScores(enhancedSignals, isTrusted, isSuspicious)
      trustScore == WeightedScore(signalScores)
  IN [kind |-> "result", id |-> id, url |-> signals.url,
      domain |-> signals.domain, trustScore |-> trustScore,
      verdict |-> getVerdictFromScore(trustScore),
      signalScores |-> signalScores, signals |-> enhancedSignals,
      explanation |-> "pending"]

\* ------------------------------------------------- the analysis of a bundle
\* The pages analysed: url and hostname.  x.com is on the trusted list,
\* bet.medium.com is under a trusted domain and holds a suspicious pattern,
\* the second url of x.com holds one in its path, a.top holds one, a.com is
\* neither.
Https == <<"h", "t", "t", "p", "s", ":", "/", "/">>
Pages ==
  { [domain |-> <<"x", ".", "c", "o", "m">>, path |-> <<"/">>],
    [domain |-> <<"x", ".", "c", "o", "m">>, path |-> <<"/", "B", "E", "T">>],
    [domain |-> <<"b", "e", "t", ".", "m", "e", "d", "i", "u", "m", ".",
                  "c", "o", "m">>, path |-> <<"/">>],
    [domain |-> <<"a", ".", "t", "o", "p">>, path |-> <<"/">>],
    [domain |-> <<"a", ".", "c", "o", "m">>, path |-> <<"/">>] }

\* CookieSignal: none; three, all third-party; ten of which three third-party
\* (the collector's estimate) and three secure and httpOnly.
CookieSignals ==
  { [count |-> 0, thirdPartyCount |-> 0, secure |-> 0],
    [count |-> 3, thirdPartyCount |-> 3, secure |-> 0],
    [count |-> 10, thirdPartyCount |-> 3, secure |-> 3] }

\* TrackerSignal, by the number of detected trackers.
TrackerSignals == { [detected |-> n] : n \in {0, 12} }

\* FingerprintSignal, by the number of techniques.
FingerprintSignals ==
  { [techniques |-> 0, risk |-> "low"], [techniques |-> 1, risk |-> "medium"],
    [techniques |-> 12, risk |-> "high"] }

\* HeaderSignal: nothing found; a meta header only (the collector); the four
\* required headers with three others missing; the four with ten issues.
HeaderSignals ==
  { [present |-> [required |-> 0, other |-> 0], missing |-> 0, issues |-> 1],
    [present |-> [required |-> 0, other |-> 1], missing |-> 0, issues |-> 0],
    [present |-> [required |-> 4, other |-> 0], missing |-> 3, issues |-> 0],
    [present |-> [required |-> 4, other |-> 0], missing |-> 0, issues |-> 10] }

\* SSLSignal.
SSLSignals ==
  { [valid |-> FALSE, issuer |-> ""], [valid |-> TRUE, issuer |-> ""],
    [valid |-> TRUE, issuer |-> "Other CA"] }

\* The PageSignals bundles given to the analysis.
Bundles ==
  { [kind |-> "signals", url |-> Https \o page.domain \o page.path,
     domain |-> page.domain, cookies |-> c, trackers |-> t,
     fingerprinting |-> f, headers |-> h, ssl |-> l] :
      page \in Pages, c \in CookieSignals, t \in TrackerSignals,
      f \in FingerprintSignals, h \in HeaderSignals, l \in SSLSignals }

\* Everything but the analysis of the bundle.
analysisRest == <<now, advances, cachedResults, calls, settings,
                  currentTabResults, pendingAnalyses,
                  pendingSignalCollections, timerQ, pc, req, snap, tsnap, sig,
                  result, response, msg, xpc, xsnap, xres, resolveCalls,
                  sigFrom, sigReply, offlineQueue, offlineQueueSize, qop,
                  enqueued, dequeued, statusUpdates, popupOpen, inbox, graded,
                  collected>>

InitAnalysis ==
  /\ InitState /\ settings = Unset
  /\ graded = NoGrade /\ collected = NoCollection
  /\ bundle \in Bundles

\* Every value a draw of enhanceSignals can have.
AllRolls == [trackers : 0..4, techniques : 0..1, issuer : 0..3]

\* The analysis of the bundle: simulateAnalysis, the result stored under the
\* domain, the response.
Analyze(rolls) ==
  /\ runs = <<>>
  /\ rolls \in Rolls(IsTrusted(toLowerCase(bundle.domain)))
  /\ LET res == scoreAnalysis(bundle, rolls, Len(runs) + 1)
     IN /\ runs' = Append(runs, res)
        /\ cachedRun' = res
        /\ published' = Append(published,
             [type |-> "response", result |-> res])
  /\ UNCHANGED <<bundle, analysisRest>>

\* generateExplanationAsync on the entry of the domain: the explanation set
\* complete, the entry stored, the broadcast.
Explain ==
  /\ cachedRun # NoResult
  /\ cachedRun.explanation = "pending"
  /\ cachedRun' = [cachedRun EXCEPT !.explanation = "complete"]
  /\ published' = Append(published,
       [type |-> "ANALYSIS_RESULT",
        result |-> [cachedRun EXCEPT !.explanation = "complete"]])
  /\ UNCHANGED <<bundle, runs, analysisRest>>

NextAnalysis ==
  \/ \E rolls \in AllRolls : Analyze(rolls)
  \/ Explain

SpecAnalysis == InitAnalysis /\ [][NextAnalysis]_vars

\* simulateAnalysis called once more on the same bundle.
Rerun(rolls) ==
  /\ Len(runs) < MaxRuns
  /\ rolls \in Rolls(IsTrusted(toLowerCase(bundle.domain)))
  /\ runs' = Append(runs, scoreAnalysis(bundle, rolls, Len(runs) + 1))
  /\ UNCHANGED <<bundle, cachedRun, published, analysisRest>>

NextRerun == \E rolls \in AllRolls : Rerun(rolls)

SpecRerun == InitAnalysis /\ [][NextRerun]_vars

\* The scores of a result are integers of the scale.
OnScale(x) == x \in 0..100

\* C24: the five category scores and the trustScore of every result are
\* integers from 0 to 100.
C24_ScoresOnScale ==
  \A i \in 1..Len(runs) :
    /\ OnScale(runs[i].signalScores.cookies)
    /\ OnScale(runs[i].signalScores.trackers)
    /\ OnScale(runs[i].signalScores.fingerprinting)
    /\ OnScale(runs[i].signalScores.headers)
    /\ OnScale(runs[i].signalScores.ssl)
    /\ OnScale(runs[i].trustScore)

\* A result whose fingerprinting score was cut at 0 and whose cookie score
\* was cut at 100.
C24_Witness ==
  \E i \in 1..Len(runs) :
    /\ runs[i].signalScores.fingerprinting = 0
    /\ runs[i].signalScores.cookies = 100
    /\ runs[i].signals.fingerprinting.techniques = 12
    /\ runs[i].trustScore \in 1..99

\* ------------------------------------------------------------ the verdict
\* The scores given to getVerdictFromScore.
Scores == (0 - ScoreMargin)..(100 + ScoreMargin)

\* Everything but the graded score.
gradedRest == <<now, advances, cachedResults, calls, settings,
                currentTabResults, pendingAnalyses, pendingSignalCollections,
                timerQ, pc, req, snap, tsnap, sig, result, response, msg, xpc,
                xsnap, xres, resolveCalls, sigFrom, sigReply, offlineQueue,
                offlineQueueSize, qop, enqueued, dequeued, statusUpdates,
                popupOpen, inbox, bundle, runs, cachedRun, published,
                collected>>

InitVerdict ==
  /\ InitState /\ settings = Unset
  /\ bundle = NoSignals /\ collected = NoCollection
  /\ graded \in { [score |-> x, verdict |-> "none"] : x \in Scores }

\* getVerdictFromScore(score) is called.
Grade ==
  /\ graded.verdict = "none"
  /\ graded' = [graded EXCEPT !.verdict = getVerdictFromScore(graded.score)]
  /\ UNCHANGED gradedRest

NextVerdict == Grade

SpecVerdict == InitVerdict /\ [][NextVerdict]_vars

\* The order of the verdicts.
Rank(verdict) ==
  CASE verdict = "danger" -> 0 [] verdict = "warning" -> 1
    [] verdict = "safe" -> 2

\* C25: the verdict is safe from 70 on, warning from 40 to 69 and danger
\* below 40, and no lower score has a better verdict.
C25_VerdictSteps ==
  graded.verdict # "none" =>
    /\ graded.score >= 70 => graded.verdict = "safe"
    /\ (graded.score >= 40 /\ graded.score <= 69)
         => graded.verdict = "warning"
    /\ graded.score < 40 => graded.verdict = "danger"
    /\ \A x \in Scores :
         x <= graded.score
           => Rank(getVerdictFromScore(x)) <= Rank(graded.verdict)

\* The score 40 was graded warning.
C25_Witness == graded.score = 40 /\ graded.verdict = "warning"

\* The results returned, cached and broadcast so far.
Results ==
  { runs[i] : i \in 1..Len(runs) }
    \cup (IF cachedRun = NoResult THEN {} ELSE {cachedRun})
    \cup { published[i].result : i \in 1..Len(published) }

\* C26: in every result returned, cached or broadcast, trustScore is the
\* rounded sum of 0.25 ssl, 0.20 headers, 0.20 cookies, 0.20 trackers and
\* 0.15 fingerprinting of its own signalScores, and verdict is the verdict of
\* that trustScore; also after the explanation was filled in.
C26_ScoreAndVerdictAgree ==
  \A res \in Results :
    /\ 100 * res.trustScore - 50
         <= 25 * res.signalScores.ssl + 20 * res.signalScores.headers
              + 20 * res.signalScores.cookies + 20 * res.signalScores.trackers
              + 15 * res.signalScores.fingerprinting
    /\ 25 * res.signalScores.ssl + 20 * res.signalScores.headers
         + 20 * res.signalScores.cookies + 20 * res.signalScores.trackers
         + 15 * res.signalScores.fingerprinting
         < 100 * res.trustScore + 50
    /\ res.verdict = (IF res.trustScore >= 70 THEN "safe"
                      ELSE IF res.trustScore >= 40 THEN "warning"
                      ELSE "danger")

\* A result with unlike category scores was returned, then stored and
\* broadcast with its explanation.
C26_Witness ==
  /\ Len(published) = 2
  /\ published[1].type = "response"
  /\ published[2].type = "ANALYSIS_RESULT"
  /\ published[2].result.explanation = "complete"
  /\ cachedRun = published[2].result
  /\ published[2].result.signalScores.ssl = 30
  /\ published[2].result.signalScores.cookies = 100
  /\ published[2].result.verdict = "warning"

\* C27: two runs of simulateAnalysis on the same bundle yield the same
\* SignalScores, trustScore and verdict.
C27_ScoringDeterministic ==
  \A i, j \in 1..Len(runs) :
    /\ runs[i].signalScores = runs[j].signalScores
    /\ runs[i].trustScore = runs[j].trustScore
    /\ runs[i].verdict = runs[j].verdict

\* C28: a bundle with invalid TLS, no detected trackers, no fingerprinting
\* techniques and no header issues never gets the verdict safe, whatever the
\* domain: its trustScore is below 70.
C28_InvalidTlsNeverSafe ==
  (/\ ~bundle.ssl.valid
   /\ bundle.trackers.detected = 0
   /\ bundle.fingerprinting.techniques = 0
   /\ bundle.headers.issues = 0)
    => \A res \in Results : res.verdict # "safe" /\ res.trustScore < 70

\* A third-party cookie ratio of at most 0.3, the ratio the collector
\* estimates.
LowThirdPartyRatio(cookies) == cookies.thirdPartyCount * 10 <= 3 * cookies.count

\* The clean bundle of a trusted domain: no trackers, the four required
\* headers, valid TLS, a low third-party cookie ratio.
TrustedAndClean ==
  /\ IsTrusted(toLowerCase(bundle.domain))
  /\ bundle.trackers.detected = 0
  /\ bundle.headers.present.required = 4
  /\ bundle.ssl.valid
  /\ LowThirdPartyRatio(bundle.cookies)

Faults == {"none", "cookies", "fingerprinting"}

PageStates ==
  [page : Pages, https : BOOLEAN, cookies : {0, 4}, trackers : {0, 2},
   canvas : BOOLEAN, checks : {0, 2}, metas : {0, 1}, fault : Faults]

\* The outcome of a call that threw.
Thrown == [kind |-> "thrown"]

\* collectCookies
collectCookies(page) ==
  IF page.fault = "cookies" THEN Thrown
  ELSE [count |-> page.cookies,
        thirdPartyCount |-> (page.cookies * 3) \div 10,
        secure |-> 0]

\* detectTrackers
detectTrackers(page) == [detected |-> page.trackers]

\* detectFingerprinting: a check that throws adds no technique.
detectFingerprinting(page) ==
  LET techniques ==
        (IF page.canvas /\ page.fault # "fingerprinting" THEN 1 ELSE 0)
          + page.checks
  IN [techniques |-> techniques,
      risk |-> IF techniques >= 3 THEN "high"
               ELSE IF techniques >= 1 THEN "medium" ELSE "low"]

\* analyzeHeaders: the names it finds are not among the required ones.
analyzeHeaders(page) ==
  [present |-> [required |-> 0, other |-> page.metas], missing |-> 0,
   issues |-> IF page.metas = 0 THEN 1 ELSE 0]

\* checkSSL
checkSSL(page) == [valid |-> page.https, issuer |-> ""]

\* collectAllSignals with its sub-collectors: an exception of one leaves it.
collectAllSignalsFrom(page) ==
  IF collectCookies(page) = Thrown THEN Thrown
  ELSE [kind |-> "signals", url |-> Https \o page.page.domain \o page.page.path,
        domain |-> page.page.domain, cookies |-> collectCookies(page),
        trackers |-> detectTrackers(page),
        fingerprinting |-> detectFingerprinting(page),
        headers |-> analyzeHeaders(page), ssl |-> checkSSL(page)]

\* Everything but the collection.
collectedRest == <<now, advances, cachedResults, calls, settings,
                   currentTabResults, pendingAnalyses,
                   pendingSignalCollections, timerQ, pc, req, snap, tsnap,
                   sig, result, response, msg, xpc, xsnap, xres,
                   resolveCalls, sigFrom, sigReply, offlineQueue,
                   offlineQueueSize, qop, enqueued, dequeued, statusUpdates,
                   popupOpen, inbox, bundle, runs, cachedRun, published,
                   graded>>

InitCollector ==
  /\ InitState /\ settings = Unset
  /\ bundle = NoSignals /\ graded = NoGrade
  /\ collected \in { [kind |-> "page", page |-> page, sent |-> <<>>,
                      reply |-> [kind |-> "none"]] : page \in PageStates }

\* The content script's listener on COLLECT_SIGNALS.
CollectSignals ==
  /\ collected.kind = "page"
  /\ LET signals == collectAllSignalsFrom(collected.page)
     IN collected' =
          IF signals = Thrown
          THEN [collected EXCEPT !.kind = "done",
                  !.reply = [kind |-> "reply", success |-> FALSE]]
          ELSE [collected EXCEPT !.kind = "done",
                  !.sent = <<[type |-> "SIGNALS_COLLECTED",
                              signals |-> signals]>>,
                  !.reply = [kind |-> "reply", success |-> TRUE]]
  /\ UNCHANGED collectedRest

NextCollector == CollectSignals

SpecCollector == InitCollector /\ [][NextCollector]_vars

\* C30: whichever single sub-collector fails, the collector sends
\* SIGNALS_COLLECTED with a complete bundle, in which only the category of
\* the failed sub-collector is degraded, and answers with success.
C30_CollectionNeverAborts ==
  collected.kind = "done" =>
    /\ Len(collected.sent) = 1
    /\ collected.sent[1].type = "SIGNALS_COLLECTED"
    /\ collected.sent[1].signals.kind = "signals"
    /\ collected.sent[1].signals.trackers = detectTrackers(collected.page)
    /\ collected.sent[1].signals.headers = analyzeHeaders(collected.page)
    /\ collected.sent[1].signals.ssl = checkSSL(collected.page)
    /\ collected.reply.success

\* ---------------------------------------------- properties of concurrency
\* The domain whose entry request r's handler sets or evicts at this step,
\* if it does either.
SetsEntry(r) == pc[r] = "put_write" /\ pc'[r] = "session_read"
EvictsEntry(r) == pc[r] = "lookup" /\ pc'[r] = "evict"

\* C31: a setCachedResult or an expiry eviction for one domain, run while
\* other cache calls are under way, leaves the entry of every other domain
\* as it is: the set stores its entry, the eviction removes its entry, and
\* nothing else changes.
C31_OtherDomainsUntouched ==
  [][\A r \in Reqs :
       /\ SetsEntry(r) =>
            /\ cachedResults'[sig[r].domain].result = result[r]
            /\ \A d \in Domains \ {sig[r].domain} :
                 cachedResults'[d] = cachedResults[d]
       /\ EvictsEntry(r) =>
            /\ cachedResults'[getDomainFromUrl(req[r].url)] = NoEntry
            /\ \A d \in Domains \ {getDomainFromUrl(req[r].url)} :
                 cachedResults'[d] = cachedResults[d]]_vars

\* C32: once a request that ran its own analysis for a tab has been answered
\* with its result, and no other request was for that tab, the session map
\* of tab results holds that result under the tab, also when the analysis of
\* another tab ran at the same time.
C32_TabResultKept ==
  \A r \in Reqs :
    (Analyzed(r) /\ \A q \in Reqs \ {r} : req[q].tabId # req[r].tabId)
      => currentTabResults[req[r].tabId] = result[r]

\* The oldest timer fires at this step.
TimerFires == timerQ # <<>> /\ timerQ' = Tail(timerQ)

\* C33: the timer of a request removes no waiter but the one its own request
\* registered: when it fires while the tab's waiter belongs to a later
\* request, that waiter stays registered.
C33_TimeoutRemovesOwnWaiter ==
  [][TimerFires =>
       LET r == Head(timerQ)
           tabId == req[r].tabId
       IN pendingSignalCollections[tabId] # r =>
            pendingSignalCollections'[tabId] = pendingSignalCollections[tabId]]_vars

\* C34: the result that the generator of request r stores and broadcasts
\* with its explanation is the result the explanation was generated from
\* (simulateExplanation(result) of request r), by id, also when another
\* analysis of the same domain has replaced the entry in the meantime.
C34_ExplanationOfSameResult ==
  \A r \in Reqs :
    xres[r] # NoResult => xres[r].id = result[r].id

\* A setCachedResult has read cachedResults and not yet stored it.
SetUnderWay == \E r \in Reqs : pc[r] = "put_write" \/ xpc[r] = "put_write"

\* CLEAR_CACHE handled once, on a cache that holds an entry, while a
\* setCachedResult of an ANALYZE_PAGE handler or a generator is under way.
ClearCacheDuring ==
  /\ calls = <<>>
  /\ SetUnderWay
  /\ \E d \in Domains : cachedResults[d] # NoEntry
  /\ ClearCache

\* The handlers that touch the cache, with a content script that answers
\* every COLLECT_SIGNALS before the timer fires.
NextClear ==
  \/ \E r \in Reqs, t \in Tabs, u \in Urls : AnalyzePage(r, t, u)
  \/ \E r \in Reqs : GetCachedResume(r)
  \/ \E r \in Reqs : EvictResume(r)
  \/ \E r \in Reqs : SignalsCollected(r)
  \/ \E r \in Reqs : AnalyzeCompute(r)
  \/ \E r \in Reqs : SetCachedWrite(r)
  \/ \E r \in Reqs : SessionRead(r)
  \/ \E r \in Reqs : SessionWrite(r)
  \/ \E r \in Reqs : AnalyzeFinish(r)
  \/ \E r \in Reqs : ExplainLookup(r)
  \/ \E r \in Reqs : ExplainCheck(r)
  \/ \E r \in Reqs : ExplainPutRead(r)
  \/ \E r \in Reqs : ExplainPutWrite(r)
  \/ \E r \in Reqs : ExplainNotify(r)
  \/ ClearCacheDuring

SpecClear == Init /\ [][NextClear]_vars

\* C35: once CLEAR_CACHE has answered, no entry that was in the cache when
\* it was cleared is in the cache again, also when a setCachedResult or an
\* eviction that started before the clear stores its object after it.
C35_ClearedEntriesStayGone ==
  \A i \in 1..Len(calls) :
    calls[i].op = "clear" =>
      \A d \in Domains :
        calls[i].had[d] # NoEntry => cachedResults[d] # calls[i].had[d]

\* C36: the result a request gets from its own analysis has the domain of
\* the url the request named, the domain its cache lookup used, whatever
\* bundle the content script of the tab reported.
C36_ResultDomainIsUrlDomain ==
  \A r \in Reqs :
    Analyzed(r) => response[r].result.domain = getDomainFromUrl(req[r].url)

\* C37: every entry of cachedResults is stored under the domain its result
\* names, after any sequence of analyses, explanation updates, expiry
\* evictions and clears.
C37_EntryKeyIsResultDomain ==
  \A d \in Domains :
    cachedResults[d] # NoEntry => cachedResults[d].result.domain = d

\* After a clear both domains hold an entry again, one of them with its
\* explanation, stored for a request that named the other domain's url.
C37_Witness ==
  /\ Len(calls) = 1 /\ calls[1].op = "clear"
  /\ \A d \in Domains : cachedResults[d] # NoEntry
  /\ \E r \in Reqs :
       /\ getDomainFromUrl(req[r].url) # sig[r].domain
       /\ cachedResults[sig[r].domain].result.id = r
       /\ cachedResults[sig[r].domain].result.explanation = "complete"

\* The generator of request r stores the result with its explanation at
\* this step.
StoresExplanation(r) == xpc[r] = "put_write" /\ xpc'[r] = "notify"

\* C38: storing the completed explanation leaves cachedAt and expiresAt of
\* the entry that holds the result as they were.
C38_ExplanationKeepsLifetime ==
  [][\A r \in Reqs :
       LET entry == cachedResults[result[r].domain]
       IN (/\ StoresExplanation(r)
           /\ entry # NoEntry
           /\ entry.result.id = xres[r].id)
          => /\ cachedResults'[result[r].domain].cachedAt = entry.cachedAt
             /\ cachedResults'[result[r].domain].expiresAt = entry.expiresAt]_vars

\* The risk that goes with a number of techniques: low for none, medium for
\* one or two, high for three or more.
RiskOf(techniques) ==
  IF techniques = 0 THEN "low"
  ELSE IF techniques <= 2 THEN "medium" ELSE "high"

\* C39: in every result, signals.fingerprinting.risk agrees with the number
\* of techniques listed, for the techniques the bundle reported and for those
\* enhanceSignals filled in.
C39_RiskMatchesTechniques ==
  \A res \in Results :
    res.signals.fingerprinting.risk
      = RiskOf(res.signals.fingerprinting.techniques)

====
